---------------------------- MODULE Spec2Model ----------------------------
(***************************************************************************)
(* InsvFrameProvider (lib/providers): the frame provider that owns one     *)
(* ffmpeg.wasm backend, its single-slot result cache and its busy flag.    *)
(*                                                                         *)
(* The provider is an object with async methods running on one JavaScript  *)
(* thread.  Every `await` of the source is a scheduling point: a method is *)
(* modelled as one action for its synchronous prefix (the call) and one    *)
(* action per await (the code from that await to the next one).  The       *)
(* backend (class FFmpeg of @ffmpeg/ffmpeg) is not part of the repository: *)
(* each of its operations may succeed or fail, and succeeds only on an     *)
(* instance that is loaded and not terminated.                             *)
(***************************************************************************)
EXTENDS Integers, Sequences, FiniteSets, TLC

(***************************************************************************)
(* Bounds of the model.                                                    *)
(***************************************************************************)
\* concurrent frameAt calls (callers that may overlap)
NumCallers == 2
\* FFmpeg instances the provider may create (load and reinit create one each)
MaxInst == 2
\* backend exec invocations
MaxExec == 2
\* model time unit: timestamps are counted in 1/TsPerMs of a millisecond
TsPerMs == 4

Callers == 1..NumCallers
Insts == 1..MaxInst

(***************************************************************************)
(* Number formatting, as the template literal of frameAt does it.          *)
(***************************************************************************)
DigitChars == <<"0", "1", "2", "3", "4", "5", "6", "7", "8", "9">>

RECURSIVE NatStr(_)
\* String(n) for an integer n >= 0: its decimal digits
NatStr(n) ==
  IF n < 10 THEN <<DigitChars[n + 1]>>
  ELSE NatStr(n \div 10) \o <<DigitChars[(n % 10) + 1]>>

\* String(n) of a template literal `${n}` for an integer n
NumStr(n) == IF n < 0 THEN <<"-">> \o NatStr(0 - n) ELSE NatStr(n)

\* tsSec.toFixed(3) for tsSec = ts / (1000 * TsPerMs) seconds, ts >= 0:
\* rounded to the nearest millisecond, three decimals
ToFixed3(ts) ==
  LET ms == (ts + (TsPerMs \div 2)) \div TsPerMs
      fr == ms % 1000
  IN  NatStr(ms \div 1000) \o <<".">> \o
      <<DigitChars[(fr \div 100) + 1], DigitChars[((fr \div 10) % 10) + 1],
        DigitChars[(fr % 10) + 1]>>

\* a cache key that leaves the roll out
CacheKey_NoRoll(r) ==
  ToFixed3(r.ts) \o <<"-">> \o NumStr(r.pitch) \o <<"-">> \o NumStr(r.yaw)
    \o <<"-">> \o NumStr(r.w) \o <<"-">> \o NumStr(r.h)

\* the cache key of frameAt
CacheKey(r) ==
  ToFixed3(r.ts) \o <<"-">> \o NumStr(r.pitch) \o <<"-">> \o NumStr(r.yaw)
    \o <<"-">> \o NumStr(r.roll) \o <<"-">> \o NumStr(r.w) \o <<"-">> \o NumStr(r.h)


(***************************************************************************)
(* Values.                                                                 *)
(***************************************************************************)
\* a frameAt request: tsSec (in model time units), angle, width, height
BaseReq == [ts |-> 0, pitch |-> 0, yaw |-> -1, roll |-> 1, w |-> 10, h |-> 1]

\* the requests concurrent callers issue: two requests with different keys
Requests == {BaseReq, [BaseReq EXCEPT !.ts = TsPerMs]}

\* the base request, one that differs from it by less than a millisecond, and six
\* that differ from it in exactly one field of the key
KeyRequests ==
  { BaseReq,
    [BaseReq EXCEPT !.ts = 1],
    [BaseReq EXCEPT !.ts = TsPerMs],
    [BaseReq EXCEPT !.pitch = -1],
    [BaseReq EXCEPT !.yaw = 1],
    [BaseReq EXCEPT !.roll = 11],
    [BaseReq EXCEPT !.w = 1],
    [BaseReq EXCEPT !.h = 10] }

\* null for lastProcessedKey and lastProcessedResult
NoKey == <<>>
NoFrame == [tsSec |-> -1, dataUrl |-> 0, width |-> 0, height |-> 0]

\* the ProcessedFrame built from a decoded still (dataUrl: the still's content)
ProcessedFrame(r, bmp) ==
  [tsSec |-> r.ts, dataUrl |-> bmp, width |-> r.w, height |-> r.h]

MountPcs == {"createDir", "mount", "arrayBuffer", "writeFile"}

VARIABLES
  ffmpeg,               \* this.ffmpeg: 0 (null) or an FFmpeg instance
  name,                 \* this.name: "null", "mnt" ('/mnt/<file>') or "orig"
  isProcessing,         \* this._isProcessing
  source,               \* this.source is set
  lastProcessedKey,     \* this.lastProcessedKey
  lastProcessedResult,  \* this.lastProcessedResult
  inst,                 \* the backend instances: st is "none", "new", "loaded" or
                        \* "terminated"; out is out.jpg in the instance's file
                        \* system, 0 or its content; src is the name under which
                        \* the source is mounted or written there, or "null"
  execCount,            \* backend exec calls issued so far
  fa,                   \* the frameAt calls: position and locals of each caller
  ld,                   \* the load call
  cl,                   \* the close call
  sealed,               \* a close() has completed and load() was not called since
  ev,                   \* the call or return of a provider method this step made
  lastRender,           \* the request and the frame of the last frameAt call that
                        \* rendered a frame and returned it
  overlap               \* per caller inside its reinit: a load, a close or another
                        \* frameAt call was in flight at some point of the reinit;
                        \* at 0, for the load call: a close or a frameAt call was in
                        \* flight at some point of the load

vars == <<ffmpeg, name, isProcessing, source, lastProcessedKey, lastProcessedResult,
          inst, execCount, fa, ld, cl, sealed, ev, lastRender, overlap>>

(***************************************************************************)
(* The state of the page (App.svelte): the export run of extractFrames and *)
(* the output size settings.                                               *)
(***************************************************************************)
VARIABLES
  exporting,            \* exporting
  exportProgress,       \* exportProgress, the fraction num / den
  cancelExport,         \* cancelExport
  error,                \* error, "null" or the message extractFrames stored
  duration,             \* extractFrames: duration, in ticks
  samplesPerSecond,     \* samplesPerSecond
  angles,               \* angles: the camera ids, in list order
  times,                \* extractFrames: times, in ticks
  total,                \* extractFrames: total
  done,                 \* extractFrames: done
  zip,                  \* extractFrames: the names of the files added to zip
  cell,                 \* extractFrames: the indices <<ts, cam>> of the loops
  attempt,              \* which frameAt call of the cell is the current one
  xpc,                  \* extractFrames: the await it is suspended at, or "idle"
  archive,              \* the files of the archive the last run offered for
                        \* download, or NoArchive
  xev                   \* what the last step of the page did

xvars == <<exporting, exportProgress, cancelExport, error, duration, samplesPerSecond,
           angles, times, total, done, zip, cell, attempt, xpc, archive, xev>>

VARIABLES
  aspectPreset,         \* aspectPreset
  customAspectW,        \* customAspectW
  customAspectH,        \* customAspectH
  videoWidth,           \* videoEl.videoWidth (0 before the metadata is known)
  outSize               \* the last result of computeOutputSize

svars == <<aspectPreset, customAspectW, customAspectH, videoWidth, outSize>>

VARIABLES
  nameIn,               \* two export cells: the label and id of cam, and ts
  nameOut               \* their entry names in the zip, <<>> before they are made

nvars == <<nameIn, nameOut>>

\* no cell to name yet
NameInit ==
  /\ nameIn = <<[label |-> <<>>, id |-> 1, ts |-> 0], [label |-> <<>>, id |-> 1, ts |-> 0]>>
  /\ nameOut = <<>>

VARIABLES
  now,                  \* Date.now(), in ms
  lastPreviewTick,      \* lastPreviewTick
  cams,                 \* the cards: angle, the angle previewDataUrl shows (-1: ''), edited
  pcalls,               \* the preview frameAt calls in flight: camera and angle passed
  issuedAt,             \* the times at which preview frameAt calls were initiated
  pclean,               \* no preview call has failed and none lacked its provider
  pev                   \* what the last step of the preview path did

pvars == <<now, lastPreviewTick, cams, pcalls, issuedAt, pclean, pev>>

\* the throttle of the previews, in ms
PREVIEW_THROTTLE_MS == 200

\* a page just opened, at a time of day past the first throttle interval
PreviewInit ==
  /\ now = PREVIEW_THROTTLE_MS
  /\ lastPreviewTick = 0
  /\ cams = <<>>
  /\ pcalls = {}
  /\ issuedAt = <<>>
  /\ pclean = TRUE
  /\ pev = [op |-> "none", ok |-> TRUE]

VARIABLES
  file,                 \* file
  lastFile,             \* lastFile
  videoUrl,             \* videoUrl: the file the object URL was made of
  projection,           \* projection
  frameProvider,        \* frameProvider: a provider created by createProvider, 0 for null
  providerLoading,      \* providerLoading
  prov,                 \* the providers createProvider has made: loading, live, closed, failed
  provFile,             \* the file each provider was created from
  rl,                   \* the reloadProvider calls: the await each is at
  dirty,                \* projection or lastFile was assigned: the reactive statement will run
  aev                   \* what the last step of the page did

avars == <<file, lastFile, videoUrl, projection, frameProvider, providerLoading, prov,
           provFile, rl, dirty, aev>>

\* reloadProvider calls under way at once, for one file
MaxReloads == 2
\* reloadProvider calls under way at once, when a file is selected during the loads
\* of another
MaxOverlap == 3
\* providers createProvider makes
MaxProv == 4

\* no file: null
NoFile == [type |-> "null", name |-> <<>>]

\* a reloadProvider call that is not under way
IdleReload == [pc |-> "idle", p |-> 0]

AppInit ==
  /\ file = NoFile
  /\ lastFile = NoFile
  /\ videoUrl = NoFile
  /\ projection = "Equirectangular (mono)"
  /\ frameProvider = 0
  /\ providerLoading = FALSE
  /\ prov = [i \in 1..MaxProv |-> "none"]
  /\ provFile = [i \in 1..MaxProv |-> NoFile]
  /\ rl = [t \in 1..MaxOverlap |-> IdleReload]
  /\ dirty = FALSE
  /\ aev = [op |-> "none", ok |-> TRUE, t |-> 0]

VARIABLES
  envFlag,              \* import.meta.env.VITE_EXPERIMENTAL_WEBCODECS
  hasVideoDecoder,      \* globalThis.VideoDecoder.isConfigSupported exists
  probe,                \* what isConfigSupported does for hvc1 and for hev1
  meOutcome,            \* what the hidden video element does with the source
  fpc,                  \* the await the createProvider call is at
  probeAt,              \* the configuration probeHevcSupport is at
  supported,            \* WebCodecsHevcProvider.supported
  returned,             \* what createProvider returned
  served                \* what frameAt of the returned provider did

fvars == <<envFlag, hasVideoDecoder, probe, meOutcome, fpc, probeAt, supported, returned,
           served>>

\* the factory before createProvider is called, in its environment
FactoryIdle ==
  /\ fpc = "idle"
  /\ probeAt = 0
  /\ supported = FALSE
  /\ returned = "none"
  /\ served = "none"

FactoryInit ==
  /\ envFlag = "undefined"
  /\ hasVideoDecoder = FALSE
  /\ probe = <<"unsupported", "unsupported">>
  /\ meOutcome = "loadedmetadata"
  /\ FactoryIdle

VARIABLES
  img,                  \* img: width, height, data
  su,                   \* u of the first call
  sv,                   \* v of both calls
  sk,                   \* the whole number k added to u for the second call
  outA,                 \* out[o..o+3] after bilinearSample(img, u, v, out, o)
  outB,                 \* out[o..o+3] after the second call
  tapsA,                \* x0, x1, y0, y1 of the first call
  pole                  \* the v of the second call, when it is a call at a pole

bvars == <<img, su, sv, sk, outA, outB, tapsA, pole>>

SampleInit ==
  /\ img = [width |-> 1, height |-> 1, data |-> <<0, 0, 0, 0>>]
  /\ su = 0
  /\ sv = 0
  /\ sk = 0
  /\ outA = <<>>
  /\ outB = <<>>
  /\ tapsA = <<>>
  /\ pole = -1

VARIABLES
  lockHolder,           \* the frameAt call that set _isProcessing of the page's provider
                        \* and has not settled: of the export, of a preview, or none
  xrej                  \* by whose call the lock was held when the frameAt call of the
                        \* export that is in flight was made, "" when it was free

cvars == <<lockHolder, xrej>>

\* no preview call
NoPreview == [cam |-> 0, val |-> 0, at |-> 0]

\* _isProcessing is false
NoHolder == [by |-> "none", k |-> NoPreview]

LockInit ==
  /\ lockHolder = NoHolder
  /\ xrej = ""

\* the state outside the provider, the export run and the output size
morevars == <<nvars, pvars, avars, fvars, bvars, cvars>>

MoreInit ==
  /\ NameInit
  /\ PreviewInit
  /\ AppInit
  /\ LockInit
  /\ FactoryInit
  /\ SampleInit

\* the whole state: the provider and the page
allvars == <<vars, xvars, svars, morevars>>

\* no archive was offered for download
NoArchive == {<<"none">>}

\* a step of the page: op is the part of extractFrames that ran ("call", the
\* settling of the await "frameAt", "imgload", "toBlob", "delay" or "zip", or the
\* "cancel" click), out its outcome, issued whether it called frameAt, ended
\* whether extractFrames returned in it
PageEvent(op, out, issued, ended) ==
  [op |-> op, out |-> out, issued |-> issued, ended |-> ended, wait |-> 0]

\* the locals of extractFrames outside a run
NoRun ==
  /\ duration' = 0
  /\ times' = <<>>
  /\ total' = 0
  /\ done' = 0
  /\ zip' = {}
  /\ cell' = <<0, 0>>
  /\ attempt' = 0
  /\ xpc' = "idle"

PageInit ==
  /\ exporting = FALSE
  /\ exportProgress = [num |-> 0, den |-> 1]
  /\ cancelExport = FALSE
  /\ error = "null"
  /\ duration = 0
  /\ samplesPerSecond = 1
  /\ angles = <<>>
  /\ times = <<>>
  /\ total = 0
  /\ done = 0
  /\ zip = {}
  /\ cell = <<0, 0>>
  /\ attempt = 0
  /\ xpc = "idle"
  /\ archive = NoArchive
  /\ xev = PageEvent("none", "", FALSE, FALSE)
  /\ aspectPreset = "16:9"
  /\ customAspectW = 16
  /\ customAspectH = 9
  /\ videoWidth = 0
  /\ outSize = [w |-> 0, h |-> 0]

IdleCall ==
  [pc |-> "idle", req |-> BaseReq, tgt |-> 0, id |-> 0, bmp |-> 0, ri |-> 0, caught |-> ""]
IdleTask == [pc |-> "idle", tgt |-> 0]

\* an event: method op, at its call (its synchronous prefix) or at its return
\* after an await, by caller c with request r; kind is "ok" (it returned, frame is
\* what frameAt returned, err the failure it swallowed, if any), "err" (it threw
\* err) or "pending" (it suspended)
Event(op, at, c, r, kind, err, frame) ==
  [op |-> op, at |-> at, c |-> c, req |-> r, kind |-> kind, err |-> err,
   frame |-> frame]

\* a step inside a method: no call and no return
NoEvent == Event("none", "none", 0, BaseReq, "none", "", NoFrame)

\* a new provider and a new page
CoreInit ==
  /\ ffmpeg = 0
  /\ name = "null"
  /\ isProcessing = FALSE
  /\ source = FALSE
  /\ lastProcessedKey = NoKey
  /\ lastProcessedResult = NoFrame
  /\ inst = [i \in Insts |-> [st |-> "none", out |-> 0, src |-> "null"]]
  /\ execCount = 0
  /\ fa = [c \in Callers |-> IdleCall]
  /\ ld = IdleTask
  /\ cl = IdleTask
  /\ sealed = FALSE
  /\ ev = NoEvent
  /\ lastRender = [req |-> BaseReq, frame |-> NoFrame]
  /\ overlap = [c \in 0..NumCallers |-> FALSE]
  /\ PageInit

Init ==
  /\ CoreInit
  /\ MoreInit

(***************************************************************************)
(* The backend: class FFmpeg of @ffmpeg/ffmpeg, outside the repository.    *)
(***************************************************************************)
\* new FFmpeg(): the first unused instance identifier
Free(i) == inst[i].st = "none"
CanCreate == \E i \in Insts : Free(i)
NewInst == CHOOSE i \in Insts : Free(i) /\ \A j \in Insts : j < i => ~Free(j)
Created(i) == [inst EXCEPT ![i] = [st |-> "new", out |-> 0, src |-> "null"]]

\* load() resolved on instance i
Loaded(i) == [inst EXCEPT ![i] = [st |-> "loaded", out |-> 0, src |-> "null"]]

\* terminate() called on instance i: its worker and its file system are gone
Terminated(i) == [inst EXCEPT ![i] = [st |-> "terminated", out |-> 0, src |-> "null"]]

\* a backend operation issued to instance i can succeed
Usable(i) == i # 0 /\ inst[i].st = "loaded"

(***************************************************************************)
(* mountSource                                                             *)
(***************************************************************************)
\* mountSource up to its first await: "return" when there is nothing to mount
MountSourceEntry ==
  IF ffmpeg = 0 \/ ~source THEN [pc |-> "return", tgt |-> 0]
  ELSE [pc |-> "createDir", tgt |-> ffmpeg]

\* mountSource without the fallback: a failure of createDir or mount is thrown
MountSourceStep_NoFallback(mpc, ok) ==
  CASE mpc = "createDir" ->
         IF ok /\ ffmpeg # 0 THEN [pc |-> "mount", tgt |-> ffmpeg, name |-> name]
         ELSE [pc |-> "throw", tgt |-> 0, name |-> name]
    [] mpc = "mount" ->
         IF ok THEN [pc |-> "return", tgt |-> 0, name |-> "mnt"]
         ELSE [pc |-> "throw", tgt |-> 0, name |-> name]
    [] OTHER -> [pc |-> "throw", tgt |-> 0, name |-> name]

\* mountSource from the await at mpc, which settled ok or not, to the next await,
\* to its return or to its throw
MountSourceStep(mpc, ok) ==
  LET fallback == [pc |-> "arrayBuffer", tgt |-> 0, name |-> name] IN
  CASE mpc = "createDir" ->
         IF ok /\ ffmpeg # 0 THEN [pc |-> "mount", tgt |-> ffmpeg, name |-> name]
         ELSE fallback
    [] mpc = "mount" ->
         IF ok THEN [pc |-> "return", tgt |-> 0, name |-> "mnt"] ELSE fallback
    [] mpc = "arrayBuffer" ->
         IF ok /\ ffmpeg # 0 THEN [pc |-> "writeFile", tgt |-> ffmpeg, name |-> name]
         ELSE [pc |-> "throw", tgt |-> 0, name |-> name]
    [] mpc = "writeFile" ->
         IF ok THEN [pc |-> "return", tgt |-> 0, name |-> "orig"]
         ELSE [pc |-> "throw", tgt |-> 0, name |-> name]

\* the instance's file system after the await at mpc on instance tgt settled
MountSourceFs(mpc, tgt, ok) ==
  IF ok /\ mpc = "mount" THEN [inst EXCEPT ![tgt].src = "mnt"]
  ELSE IF ok /\ mpc = "writeFile" THEN [inst EXCEPT ![tgt].src = "orig"]
  ELSE inst

\* the await at mpc on instance tgt can settle with ok
MountCanSettle(mpc, tgt, ok) == ok => (mpc = "arrayBuffer" \/ Usable(tgt))

(***************************************************************************)
(* load                                                                    *)
(***************************************************************************)
LoadCall ==
  /\ ld.pc = "idle"
  /\ CanCreate
  /\ source' = TRUE
  /\ ffmpeg' = NewInst
  /\ inst' = Created(NewInst)
  /\ ld' = [pc |-> "load", tgt |-> NewInst]
  /\ sealed' = FALSE
  /\ ev' = Event("load", "call", 0, BaseReq, "pending", "", NoFrame)
  /\ UNCHANGED <<name, isProcessing, lastProcessedKey, lastProcessedResult,
                 execCount, fa, cl, lastRender>>

\* await this.ffmpeg.load({coreURL: await toBlobURL(..), wasmURL: await toBlobURL(..)})
LoadBackendSettle ==
  /\ ld.pc = "load"
  /\ \E ok \in BOOLEAN :
       IF ok
       THEN /\ inst' = Loaded(ld.tgt)
            /\ IF MountSourceEntry.pc = "return"
               THEN /\ ld' = IdleTask
                    /\ ev' = Event("load", "return", 0, BaseReq, "ok", "", NoFrame)
               ELSE /\ ld' = [pc |-> MountSourceEntry.pc, tgt |-> MountSourceEntry.tgt]
                    /\ ev' = NoEvent
       ELSE /\ ld' = IdleTask
            /\ ev' = Event("load", "return", 0, BaseReq, "err", "load", NoFrame)
            /\ UNCHANGED inst
  /\ UNCHANGED <<ffmpeg, name, isProcessing, source, lastProcessedKey,
                 lastProcessedResult, execCount, fa, cl, sealed, lastRender>>

LoadMountSettle ==
  /\ ld.pc \in MountPcs
  /\ \E ok \in BOOLEAN :
       /\ MountCanSettle(ld.pc, ld.tgt, ok)
       /\ inst' = MountSourceFs(ld.pc, ld.tgt, ok)
       /\ LET r == MountSourceStep(ld.pc, ok) IN
            /\ name' = r.name
            /\ CASE r.pc = "return" ->
                      /\ ld' = IdleTask
                      /\ ev' = Event("load", "return", 0, BaseReq, "ok", "", NoFrame)
                 [] r.pc = "throw" ->
                      /\ ld' = IdleTask
                      /\ ev' = Event("load", "return", 0, BaseReq, "err", "mount", NoFrame)
                 [] OTHER ->
                      /\ ld' = [pc |-> r.pc, tgt |-> r.tgt]
                      /\ ev' = NoEvent
  /\ UNCHANGED <<ffmpeg, isProcessing, source, lastProcessedKey, lastProcessedResult,
                 execCount, fa, cl, sealed, lastRender>>

(***************************************************************************)
(* close                                                                   *)
(***************************************************************************)
\* close without its try/catch: a failure of terminate rejects the call and skips
\* the three assignments
CloseReset_Rethrow(swallowed) ==
  /\ cl' = IdleTask
  /\ IF swallowed = ""
     THEN /\ ffmpeg' = 0
          /\ name' = "null"
          /\ isProcessing' = FALSE
          /\ sealed' = TRUE
          /\ ev' = Event("close", "return", 0, BaseReq, "ok", "", NoFrame)
     ELSE /\ ev' = Event("close", "return", 0, BaseReq, "err", swallowed, NoFrame)
          /\ UNCHANGED <<ffmpeg, name, isProcessing, sealed>>

\* the three assignments at the end of close, and its return; swallowed is the
\* failure its catch swallowed ("" when nothing failed)
CloseReset(swallowed) ==
  /\ ffmpeg' = 0
  /\ name' = "null"
  /\ isProcessing' = FALSE
  /\ sealed' = TRUE
  /\ cl' = IdleTask
  /\ ev' = Event("close", "return", 0, BaseReq, "ok", swallowed, NoFrame)

\* close from `await this.ffmpeg.terminate()` on: the call terminates the
\* instance; with this.ffmpeg null by now the expression throws, which is caught
CloseTerminate ==
  IF ffmpeg # 0
  THEN /\ inst' = Terminated(ffmpeg)
       /\ cl' = [pc |-> "terminate", tgt |-> ffmpeg]
       /\ ev' = NoEvent
       /\ UNCHANGED <<ffmpeg, name, isProcessing, sealed>>
  ELSE /\ CloseReset("terminate")
       /\ UNCHANGED inst

CloseCall ==
  /\ cl.pc = "idle"
  /\ IF ffmpeg # 0
     THEN IF name # "null"
          THEN /\ cl' = [pc |-> "cleanup", tgt |-> ffmpeg]
               /\ ev' = NoEvent
               /\ UNCHANGED <<ffmpeg, name, isProcessing, sealed, inst>>
          ELSE CloseTerminate
     ELSE /\ CloseReset("")
          /\ UNCHANGED inst
  /\ UNCHANGED <<source, lastProcessedKey, lastProcessedResult, execCount, fa, ld,
                 lastRender>>

\* await this.ffmpeg.unmount('/mnt') or await this.ffmpeg.deleteFile(this.name):
\* either outcome is swallowed
CloseCleanupSettle ==
  /\ cl.pc = "cleanup"
  /\ CloseTerminate
  /\ UNCHANGED <<source, lastProcessedKey, lastProcessedResult, execCount, fa, ld,
                 lastRender>>

\* await this.ffmpeg.terminate() settles: it resolved, or it threw and the catch
\* of close swallowed the error
CloseTerminateSettle ==
  /\ cl.pc = "terminate"
  /\ \E ok \in BOOLEAN : CloseReset(IF ok THEN "" ELSE "terminate")
  /\ UNCHANGED <<source, lastProcessedKey, lastProcessedResult, inst, execCount,
                 fa, ld, lastRender>>

(***************************************************************************)
(* frameAt                                                                 *)
(***************************************************************************)
\* frameAt settles for caller c: the call leaves the method
Return(c, kind, err, frame) ==
  /\ fa' = [fa EXCEPT ![c] = IdleCall]
  /\ lastRender' = IF kind = "ok" THEN [req |-> fa[c].req, frame |-> frame]
                    ELSE lastRender
  /\ ev' = Event("frameAt", "return", c, fa[c].req, kind, err, frame)

\* frameAt suspends at the await named pc, on an operation of instance tgt
Await(c, pc, tgt, bmp) ==
  /\ fa' = [fa EXCEPT ![c] = [@ EXCEPT !.pc = pc, !.tgt = tgt, !.bmp = bmp]]
  /\ ev' = NoEvent
  /\ UNCHANGED lastRender

\* Finish storing the result without its key
Finish_NoKey(c, bmp, canvasOk) ==
  /\ isProcessing' = FALSE
  /\ IF bmp = 0
     THEN /\ Return(c, "err", "extract", NoFrame)
          /\ UNCHANGED <<lastProcessedKey, lastProcessedResult>>
     ELSE IF canvasOk
          THEN /\ lastProcessedResult' = ProcessedFrame(fa[c].req, bmp)
               /\ UNCHANGED lastProcessedKey
               /\ Return(c, "ok", "", ProcessedFrame(fa[c].req, bmp))
          ELSE /\ Return(c, "err", "canvas", NoFrame)
               /\ UNCHANGED <<lastProcessedKey, lastProcessedResult>>

\* Finish storing the key before the canvas is drawn
Finish_KeyFirst(c, bmp, canvasOk) ==
  /\ isProcessing' = FALSE
  /\ IF bmp = 0
     THEN /\ Return(c, "err", "extract", NoFrame)
          /\ UNCHANGED <<lastProcessedKey, lastProcessedResult>>
     ELSE /\ lastProcessedKey' = CacheKey(fa[c].req)
          /\ IF canvasOk
             THEN /\ lastProcessedResult' = ProcessedFrame(fa[c].req, bmp)
                  /\ Return(c, "ok", "", ProcessedFrame(fa[c].req, bmp))
             ELSE /\ Return(c, "err", "canvas", NoFrame)
                  /\ UNCHANGED lastProcessedResult

\* frameAt from `if (!resultBitmap) throw` on: the finally that releases the lock,
\* then the canvas block that stores the result in the cache and returns it
Finish(c, bmp, canvasOk) ==
  /\ isProcessing' = FALSE
  /\ IF bmp = 0
     THEN /\ Return(c, "err", "extract", NoFrame)
          /\ UNCHANGED <<lastProcessedKey, lastProcessedResult>>
     ELSE IF canvasOk
          THEN /\ lastProcessedKey' = CacheKey(fa[c].req)
               /\ lastProcessedResult' = ProcessedFrame(fa[c].req, bmp)
               /\ Return(c, "ok", "", ProcessedFrame(fa[c].req, bmp))
          ELSE /\ Return(c, "err", "canvas", NoFrame)
               /\ UNCHANGED <<lastProcessedKey, lastProcessedResult>>

\* frameAt from `try { await this.ffmpeg.deleteFile(outName) } catch {}` on
DeleteOut(c, bmp, canvasOk) ==
  IF ffmpeg # 0
  THEN /\ Await(c, "deleteFile", ffmpeg, bmp)
       /\ UNCHANGED <<isProcessing, lastProcessedKey, lastProcessedResult>>
  ELSE Finish(c, bmp, canvasOk)

\* the checks of frameAt with the busy check before the cache check
FrameAtCheck_BusyFirst(r) ==
  IF ffmpeg = 0 \/ name = "null" THEN "notloaded"
  ELSE IF isProcessing THEN "busy"
  ELSE IF lastProcessedKey = CacheKey(r) /\ lastProcessedResult # NoFrame THEN "cached"
  ELSE "run"

\* the checks of frameAt without the busy check
FrameAtCheck_NoBusy(r) ==
  IF ffmpeg = 0 \/ name = "null" THEN "notloaded"
  ELSE IF lastProcessedKey = CacheKey(r) /\ lastProcessedResult # NoFrame THEN "cached"
  ELSE "run"

\* the checks at the head of frameAt, in the order of the code: loaded, cache, busy
FrameAtCheck(r) ==
  IF ffmpeg = 0 \/ name = "null" THEN "notloaded"
  ELSE IF lastProcessedKey = CacheKey(r) /\ lastProcessedResult # NoFrame THEN "cached"
  ELSE IF isProcessing THEN "busy"
  ELSE "run"

\* a busy rejection that leaves through the finally of frameAt
BusyReject_Finally(c, r) ==
  /\ ev' = Event("frameAt", "call", c, r, "err", "busy", NoFrame)
  /\ isProcessing' = FALSE
  /\ UNCHANGED <<execCount, fa>>

\* if (this._isProcessing) throw new Error('FFmpeg is busy'): the throw is before
\* the try, so the finally that releases the lock does not run
BusyReject(c, r) ==
  /\ ev' = Event("frameAt", "call", c, r, "err", "busy", NoFrame)
  /\ UNCHANGED <<isProcessing, execCount, fa>>

\* the synchronous prefix of frameAt: its checks, then taking the lock and calling
\* exec
FrameAtCall(c, r) ==
  /\ fa[c].pc = "idle"
  /\ IF FrameAtCheck(r) = "notloaded"
     THEN /\ ev' = Event("frameAt", "call", c, r, "err", "notloaded", NoFrame)
          /\ UNCHANGED <<isProcessing, execCount, fa>>
     ELSE IF FrameAtCheck(r) = "cached"
     THEN /\ ev' = Event("frameAt", "call", c, r, "ok", "", lastProcessedResult)
          /\ UNCHANGED <<isProcessing, execCount, fa>>
     ELSE IF FrameAtCheck(r) = "busy"
     THEN BusyReject(c, r)
     ELSE /\ execCount < MaxExec
          /\ isProcessing' = TRUE
          /\ execCount' = execCount + 1
          /\ fa' = [fa EXCEPT ![c] = [pc |-> "exec", req |-> r, tgt |-> ffmpeg,
                                      id |-> execCount + 1, bmp |-> 0, ri |-> 0,
                                      caught |-> ""]]
          /\ ev' = Event("frameAt", "call", c, r, "pending", "", NoFrame)
  /\ UNCHANGED <<ffmpeg, name, source, lastProcessedKey, lastProcessedResult, inst,
                 ld, cl, sealed, lastRender>>

\* reinit from `this.ffmpeg = new FFmpeg()` to the await of its load
ReinitCreate(c) ==
  /\ CanCreate
  /\ ffmpeg' = NewInst
  /\ inst' = Created(NewInst)
  /\ fa' = [fa EXCEPT ![c] = [@ EXCEPT !.pc = "reinit_load", !.tgt = NewInst,
                                        !.ri = NewInst]]
  /\ ev' = NoEvent
  /\ UNCHANGED lastRender

\* reinit up to its first await: terminate the instance, if there is one
ReinitEntry(c) ==
  IF ffmpeg # 0
  THEN /\ inst' = Terminated(ffmpeg)
       /\ Await(c, "reinit_terminate", ffmpeg, 0)
       /\ UNCHANGED ffmpeg
  ELSE ReinitCreate(c)

\* await this.ffmpeg!.exec(args) settles: done, or it threw an error, fatal
\* ('Aborted', 'out of bounds') or not
ExecSettle(c) ==
  /\ fa[c].pc = "exec"
  /\ \E out \in {"ok", "error", "fatal"} :
       /\ out # "error" => Usable(fa[c].tgt)
       /\ IF out = "fatal"
          THEN ReinitEntry(c)
          ELSE \* the catch swallows the error; readImage up to its first await
               /\ inst' = IF out = "ok" THEN [inst EXCEPT ![fa[c].tgt].out = fa[c].id]
                          ELSE inst
               /\ fa' = [fa EXCEPT ![c] = [@ EXCEPT !.pc = "readFile", !.tgt = ffmpeg,
                                                     !.bmp = 0,
                                                     !.caught = IF out = "error"
                                                                THEN "exec" ELSE ""]]
               /\ ev' = NoEvent
               /\ UNCHANGED <<ffmpeg, lastRender>>
  /\ UNCHANGED <<name, isProcessing, source, lastProcessedKey, lastProcessedResult,
                 execCount, ld, cl, sealed>>

\* reinit: await this.ffmpeg.terminate() settles (a throw is swallowed), then
\* this.ffmpeg = new FFmpeg() up to the await of its load
ReinitTerminateSettle(c) ==
  /\ fa[c].pc = "reinit_terminate"
  /\ ReinitCreate(c)
  /\ UNCHANGED <<name, isProcessing, source, lastProcessedKey, lastProcessedResult,
                 execCount, ld, cl, sealed>>

\* frameAt after reinit returned: throw e, through the finally
ThrowFatal(c) ==
  /\ isProcessing' = FALSE
  /\ Return(c, "err", "fatal", NoFrame)

\* the reinit's error propagating past the release of the lock
ThrowReinit_NoFinally(c) ==
  /\ UNCHANGED isProcessing
  /\ Return(c, "err", "reinit", NoFrame)

\* frameAt after reinit threw: the reinit's error propagates, through the finally
ThrowReinit(c) ==
  /\ isProcessing' = FALSE
  /\ Return(c, "err", "reinit", NoFrame)

\* a reinit that ends after the load, without mounting the source again
ReinitLoadSettle_NoMount(c) ==
  /\ fa[c].pc = "reinit_load"
  /\ \E ok \in BOOLEAN :
       IF ok
       THEN /\ inst' = Loaded(fa[c].tgt)
            /\ ThrowFatal(c)
       ELSE /\ ThrowReinit(c)
            /\ UNCHANGED inst
  /\ UNCHANGED <<ffmpeg, name, source, lastProcessedKey, lastProcessedResult,
                 execCount, ld, cl, sealed>>

\* reinit: await this.ffmpeg.load(..) settles
ReinitLoadSettle(c) ==
  /\ fa[c].pc = "reinit_load"
  /\ \E ok \in BOOLEAN :
       IF ok
       THEN /\ inst' = Loaded(fa[c].tgt)
            /\ IF MountSourceEntry.pc = "return"
               THEN ThrowFatal(c)
               ELSE /\ Await(c, MountSourceEntry.pc, MountSourceEntry.tgt, 0)
                    /\ UNCHANGED isProcessing
       ELSE /\ ThrowReinit(c)
            /\ UNCHANGED inst
  /\ UNCHANGED <<ffmpeg, name, source, lastProcessedKey, lastProcessedResult,
                 execCount, ld, cl, sealed>>

\* reinit: an await of mountSource settles
ReinitMountSettle(c) ==
  /\ fa[c].pc \in MountPcs
  /\ \E ok \in BOOLEAN :
       /\ MountCanSettle(fa[c].pc, fa[c].tgt, ok)
       /\ inst' = MountSourceFs(fa[c].pc, fa[c].tgt, ok)
       /\ LET r == MountSourceStep(fa[c].pc, ok) IN
            /\ name' = r.name
            /\ CASE r.pc = "return" -> /\ Await(c, "reinit_return", 0, 0)
                                        /\ UNCHANGED isProcessing
                 [] r.pc = "throw" -> ThrowReinit(c)
                 [] OTHER -> /\ Await(c, r.pc, r.tgt, 0)
                             /\ UNCHANGED isProcessing
  /\ UNCHANGED <<ffmpeg, source, lastProcessedKey, lastProcessedResult,
                 execCount, ld, cl, sealed>>

\* await this.reinit() resumes after mountSource stored the name and returned
ReinitReturn(c) ==
  /\ fa[c].pc = "reinit_return"
  /\ ThrowFatal(c)
  /\ UNCHANGED <<ffmpeg, name, source, lastProcessedKey, lastProcessedResult, inst,
                 execCount, ld, cl, sealed>>

\* readImage: await this.ffmpeg!.readFile(filename) settles
ReadFileSettle(c) ==
  /\ fa[c].pc = "readFile"
  /\ \E ok \in BOOLEAN, canvasOk \in BOOLEAN :
       /\ ok => (Usable(fa[c].tgt) /\ inst[fa[c].tgt].out # 0)
       /\ IF ok
          THEN /\ Await(c, "createImageBitmap", 0, inst[fa[c].tgt].out)
               /\ UNCHANGED <<isProcessing, lastProcessedKey, lastProcessedResult>>
          ELSE DeleteOut(c, 0, canvasOk)
  /\ UNCHANGED <<ffmpeg, name, source, inst, execCount, ld, cl, sealed>>

\* readImage: await createImageBitmap(blob) settles
CreateImageBitmapSettle(c) ==
  /\ fa[c].pc = "createImageBitmap"
  /\ \E ok \in BOOLEAN, canvasOk \in BOOLEAN :
       DeleteOut(c, IF ok THEN fa[c].bmp ELSE 0, canvasOk)
  /\ UNCHANGED <<ffmpeg, name, source, inst, execCount, ld, cl, sealed>>

\* await this.ffmpeg.deleteFile(outName) settles (a throw is swallowed)
DeleteFileSettle(c) ==
  /\ fa[c].pc = "deleteFile"
  /\ \E ok \in BOOLEAN, canvasOk \in BOOLEAN :
       /\ ok => (Usable(fa[c].tgt) /\ inst[fa[c].tgt].out # 0)
       /\ inst' = IF ok THEN [inst EXCEPT ![fa[c].tgt].out = 0] ELSE inst
       /\ Finish(c, fa[c].bmp, canvasOk)
  /\ UNCHANGED <<ffmpeg, name, source, execCount, ld, cl, sealed>>

\* the positions of a frameAt call inside the reinit its fatal error triggered
ReinitPcs == {"reinit_terminate", "reinit_load", "reinit_return"} \cup MountPcs

\* after a step: whether, since caller c entered its reinit, a load, a close or
\* another frameAt call has been in flight
Overlapped(c) ==
  /\ fa'[c].pc \in ReinitPcs
  /\ \/ fa[c].pc \in ReinitPcs /\ overlap[c]
     \/ ld.pc # "idle" \/ ld'.pc # "idle"
     \/ cl.pc # "idle" \/ cl'.pc # "idle"
     \/ \E d \in Callers : d # c /\ (fa[d].pc # "idle" \/ fa'[d].pc # "idle")

\* after a step: whether, since load was called, a close or a frameAt call has
\* been in flight
LoadOverlapped ==
  /\ ld'.pc # "idle"
  /\ \/ ld.pc # "idle" /\ overlap[0]
     \/ cl.pc # "idle" \/ cl'.pc # "idle"
     \/ \E d \in Callers : fa[d].pc # "idle" \/ fa'[d].pc # "idle"

\* the methods of the provider: one disjunct per call and per await
ProviderStep(C, R) ==
  \/ LoadCall
  \/ LoadBackendSettle
  \/ LoadMountSettle
  \/ CloseCall
  \/ CloseCleanupSettle
  \/ CloseTerminateSettle
  \/ \E c \in C, r \in R :
       /\ \A d \in C : d < c => fa[d].pc # "idle"
       /\ FrameAtCall(c, r)
  \/ \E c \in C : ExecSettle(c)
  \/ \E c \in C : ReinitTerminateSettle(c)
  \/ \E c \in C : ReinitLoadSettle(c)
  \/ \E c \in C : ReinitMountSettle(c)
  \/ \E c \in C : ReinitReturn(c)
  \/ \E c \in C : ReadFileSettle(c)
  \/ \E c \in C : CreateImageBitmapSettle(c)
  \/ \E c \in C : DeleteFileSettle(c)

\* a step of the provider with callers C issuing requests from R; an idle caller
\* stands for any task of the page, so the least idle one makes the next call
NextFor(C, R) ==
  /\ ProviderStep(C, R)
  /\ overlap' = [c \in 0..NumCallers |-> IF c = 0 THEN LoadOverlapped ELSE Overlapped(c)]
  /\ UNCHANGED <<xvars, svars, morevars>>

Next == NextFor(Callers, Requests)

Spec == Init /\ [][Next]_allvars

\* one caller at a time, over the requests that differ in one field of the key
NextKey == NextFor({1}, KeyRequests)

SpecKey == Init /\ [][NextKey]_allvars

(***************************************************************************)
(* Observations the properties are stated with.                            *)
(***************************************************************************)
\* the provider passes the loaded check of frameAt
IsLoaded == ffmpeg # 0 /\ name # "null"

\* caller c is inside frameAt, between taking the lock and settling
InFlight(c) == fa[c].pc # "idle"

(***************************************************************************)
(* Properties.                                                             *)
(***************************************************************************)
\* C1 as stated: every frameAt call issued on a loaded provider while it is busy
\* with an earlier call fails with the busy error, whatever its arguments.
C1_BusyAlwaysRejects ==
  [][(/\ ev'.op = "frameAt" /\ ev'.at = "call"
      /\ IsLoaded /\ isProcessing /\ \E d \in Callers : InFlight(d))
     => (ev'.kind = "err" /\ ev'.err = "busy")]_vars

\* C1 amended: a frameAt call issued on a loaded provider while it is busy with an
\* earlier call settles in its synchronous prefix, either with the cached frame
\* (when its key is the cached key) or with the busy error; it takes no lock,
\* issues no exec and leaves nothing behind that would run later.
C1_BusySettlesAtOnce ==
  [][(/\ ev'.op = "frameAt" /\ ev'.at = "call"
      /\ IsLoaded /\ isProcessing /\ \E d \in Callers : InFlight(d))
     => /\ fa' = fa /\ execCount' = execCount /\ isProcessing'
        /\ IF lastProcessedKey = CacheKey(ev'.req) /\ lastProcessedResult # NoFrame
           THEN ev'.kind = "ok" /\ ev'.frame = lastProcessedResult
           ELSE ev'.kind = "err" /\ ev'.err = "busy"]_vars

\* C1 witness: a call was rejected as busy while another call waits for its exec
C1_Witness ==
  /\ ev.op = "frameAt" /\ ev.at = "call" /\ ev.kind = "err" /\ ev.err = "busy"
  /\ \E d \in Callers : d # ev.c /\ fa[d].pc = "exec"
  /\ fa[ev.c].pc = "idle"

\* C2 as stated: at most one frameAt call is between taking the lock and
\* releasing it.
C2_AtMostOneInFlight == Cardinality({c \in Callers : InFlight(c)}) <= 1

\* C3: the step in which a frameAt call that took the lock settles leaves the busy
\* flag false, whatever the outcome; and the flag is never true with no frameAt
\* call in flight.
C3_LockReleased ==
  [][/\ (ev'.op = "frameAt" /\ ev'.at = "return") => ~isProcessing'
     /\ isProcessing' => \E c \in Callers : fa'[c].pc # "idle"]_vars

\* C3 witness: a call whose reinit failed has settled and the provider is not busy
C3_Witness ==
  /\ ev.op = "frameAt" /\ ev.at = "return" /\ ev.kind = "err" /\ ev.err = "reinit"
  /\ ~isProcessing

\* C4: when the last frameAt call that rendered a frame was made with request r,
\* a frameAt call with the same r on a loaded, idle provider returns that same
\* frame in its synchronous prefix and issues no exec.
C4_SecondCallIsCacheHit ==
  [][(/\ ev'.op = "frameAt" /\ ev'.at = "call"
      /\ IsLoaded /\ ~isProcessing
      /\ lastRender.frame # NoFrame /\ ev'.req = lastRender.req)
     => /\ ev'.kind = "ok" /\ ev'.frame = lastRender.frame
        /\ execCount' = execCount /\ fa' = fa /\ ~isProcessing']_vars

\* C4 witness: the second call returned the frame of the first, after one exec
C4_Witness ==
  /\ ev.op = "frameAt" /\ ev.at = "call" /\ ev.kind = "ok"
  /\ lastRender.frame # NoFrame /\ ev.req = lastRender.req
  /\ ev.frame = lastRender.frame
  /\ execCount = 1

\* tsSec in whole milliseconds, rounded as toFixed(3) rounds it
Millis(ts) == (ts + (TsPerMs \div 2)) \div TsPerMs

\* the fields of the key in which two requests differ
DiffFields(a, b) ==
  {f \in {"pitch", "yaw", "roll", "w", "h"} : a[f] # b[f]}
    \cup (IF Millis(a.ts) # Millis(b.ts) THEN {"ts"} ELSE {})

\* C5: after a frameAt call rendered a frame for request r, a frameAt call whose
\* request differs from r in exactly one of timestamp (in whole milliseconds),
\* pitch, yaw, roll, width, height never returns in its synchronous prefix with a
\* cached frame; on a loaded, idle provider it takes the lock and issues an exec.
C5_OneFieldMisses ==
  [][(/\ ev'.op = "frameAt" /\ ev'.at = "call"
      /\ lastRender.frame # NoFrame
      /\ Cardinality(DiffFields(ev'.req, lastRender.req)) = 1)
     => /\ ev'.kind # "ok"
        /\ (IsLoaded /\ ~isProcessing)
             => (ev'.kind = "pending" /\ execCount' = execCount + 1)]_vars

\* C5 witness: after a render a request that differs only in the roll is rendered
\* anew; likewise one that differs only by a millisecond
C5_Witness ==
  /\ ev.op = "frameAt" /\ ev.at = "call" /\ ev.kind = "pending"
  /\ lastRender.frame # NoFrame
  /\ DiffFields(ev.req, lastRender.req) = {"roll"}
  /\ execCount = 2

\* C6: a step changes lastProcessedKey or lastProcessedResult only when it is the
\* return of a frameAt call with a frame, and then the cache holds that frame under
\* the key of that call; so a call that fails, at any point, leaves the cache as
\* it was.
C6_OnlySuccessWritesCache ==
  [][(lastProcessedKey' # lastProcessedKey \/ lastProcessedResult' # lastProcessedResult)
     => /\ ev'.op = "frameAt" /\ ev'.at = "return" /\ ev'.kind = "ok"
        /\ lastProcessedKey' = CacheKey(ev'.req)
        /\ lastProcessedResult' = ev'.frame]_vars

\* C6 witness: a call failed after its still was decoded, and the cache still holds
\* the frame of an earlier call with another key
C6_Witness ==
  /\ ev.op = "frameAt" /\ ev.at = "return" /\ ev.kind = "err" /\ ev.err = "canvas"
  /\ lastProcessedKey # NoKey /\ lastProcessedKey # CacheKey(ev.req)
  /\ lastProcessedResult = lastRender.frame

\* the step is the rejection of caller c's frameAt call out of its reinit
RejectsFromReinit(c) ==
  /\ fa[c].pc \in ReinitPcs
  /\ ev'.op = "frameAt" /\ ev'.at = "return" /\ ev'.c = c

\* no load, close or other frameAt call has been in flight since c's reinit began
Undisturbed(c) == ~overlap[c]

\* C7 as stated: once a frameAt call that hit a fatal backend error has rejected,
\* the provider is Ready: backend loaded, source name set, not busy.
C7_ReadyAfterFatal ==
  [][\A c \in Callers :
       RejectsFromReinit(c)
         => /\ ffmpeg' # 0 /\ inst'[ffmpeg'].st = "loaded"
            /\ name' # "null"
            /\ ~isProcessing']_vars

\* C7 amended: the step in which a fatal exec error starts the reinit terminates
\* the backend the provider holds; a frameAt call inside its reinit never issues
\* an exec and never goes back to the render; when it rejects with the backend's
\* fatal error, the reinit has created a new instance and loaded it; and when the
\* reinit's load and remount succeeded with no close(), load() or other frameAt
\* call overlapping, the provider is then Ready on the new instance: loaded, the
\* source mounted under the name it holds, not busy.
C7_RecoveryWhenReinitSucceeds ==
  [][\A c \in Callers :
       /\ (fa[c].pc = "exec" /\ fa'[c].pc \in ReinitPcs /\ ffmpeg # 0)
            => inst'[ffmpeg].st = "terminated"
       /\ (fa[c].pc \in ReinitPcs /\ fa'[c] # fa[c])
            => /\ execCount' = execCount
               /\ fa'[c].pc \in ReinitPcs \cup {"idle"}
       /\ (RejectsFromReinit(c) /\ ev'.err = "fatal")
            => /\ fa[c].ri # 0
               /\ inst'[fa[c].ri].st \in {"loaded", "terminated"}
               /\ ~isProcessing'
               /\ Undisturbed(c)
                    => /\ ffmpeg' = fa[c].ri /\ inst'[ffmpeg'].st = "loaded"
                       /\ name' # "null" /\ inst'[ffmpeg'].src = name']_vars

\* C7 witness: a call rejected with the fatal error of its exec, and the provider
\* is Ready on a second instance with the source mounted, the first one terminated
C7_Witness ==
  /\ ev.op = "frameAt" /\ ev.at = "return" /\ ev.kind = "err" /\ ev.err = "fatal"
  /\ ffmpeg = 2 /\ inst[2].st = "loaded" /\ inst[1].st = "terminated"
  /\ name # "null" /\ inst[2].src = name
  /\ ~isProcessing /\ execCount = 1

\* C8 as stated: a frameAt call that hit a fatal backend error rejects with the
\* error of its exec, whether its reinit succeeded or failed.
C8_OriginalErrorSurfaces ==
  [][\A c \in Callers : RejectsFromReinit(c) => ev'.err = "fatal"]_vars

\* C9: every close call returns, never rejects, also when terminate failed, and
\* the step in which it returns leaves the provider without a backend reference,
\* without a source name and not busy.
C9_CloseTotal ==
  [][ev'.op = "close"
     => /\ ev'.at = "return" /\ ev'.kind = "ok"
        /\ ffmpeg' = 0 /\ name' = "null" /\ ~isProcessing']_vars

\* C9 witness: a close whose terminate failed returned on a provider that was loaded
C9_Witness ==
  /\ ev.op = "close" /\ ev.kind = "ok" /\ ev.err = "terminate"
  /\ \E i \in Insts : inst[i].st = "terminated"
  /\ ffmpeg = 0 /\ name = "null" /\ ~isProcessing

\* C10 as stated: once a close() has completed, and until load is called again,
\* the provider holds no backend instance and no source name.
C10_ClosedStaysUnloaded == sealed => (ffmpeg = 0 /\ name = "null")

\* C11 as stated: at most one backend instance of the provider is loaded and not
\* terminated.
C11_AtMostOneAlive == Cardinality({i \in Insts : inst[i].st = "loaded"}) <= 1

\* C12: a failure of createDir or of mount does not reject load, it starts the
\* fallback write; load rejects only from the backend's load or from the fallback
\* (reading the bytes, writing the file); and when load returns with no close and
\* no frameAt call overlapping it, the provider is Ready: it holds a loaded backend
\* with the source mounted there under the name it holds, '/mnt/<name>' after a
\* mount, the original name after the fallback write.
C12_LoadMountsOrFallsBack ==
  [][/\ (ld.pc \in {"createDir", "mount"} /\ ld' # ld)
          => \/ ld'.pc = "arrayBuffer"
             \/ ld.pc = "createDir" /\ ld'.pc = "mount"
             \/ ld.pc = "mount" /\ ev'.op = "load" /\ ev'.kind = "ok" /\ name' = "mnt"
     /\ (ev'.op = "load" /\ ev'.at = "return" /\ ev'.kind = "err")
          => \/ ld.pc = "load" /\ ev'.err = "load"
             \/ ld.pc \in {"arrayBuffer", "writeFile"} /\ ev'.err = "mount"
     /\ (ev'.op = "load" /\ ev'.at = "return" /\ ev'.kind = "ok" /\ ~overlap[0])
          => /\ ffmpeg' # 0 /\ inst'[ffmpeg'].st = "loaded"
             /\ name' = (IF ld.pc = "mount" THEN "mnt" ELSE "orig")
             /\ ld.pc \in {"mount", "writeFile"}
             /\ inst'[ffmpeg'].src = name'
             /\ ~isProcessing']_vars

\* C12 witness: load returned after the fallback write, the provider is Ready under
\* the original name
C12_Witness ==
  /\ ev.op = "load" /\ ev.at = "return" /\ ev.kind = "ok"
  /\ name = "orig" /\ ffmpeg # 0 /\ inst[ffmpeg].st = "loaded"
  /\ inst[ffmpeg].src = "orig"

(***************************************************************************)
(* extractFrames (App.svelte): the export run.  The frame provider is seen *)
(* through its interface: a frameAt call returns a frame, throws the busy  *)
(* error or throws another error.                                          *)
(***************************************************************************)
\* a duration, in ticks
MaxDuration == 4
\* samplesPerSecond
MaxSamples == 2
\* camera angles in the list
MaxAngles == 2

RECURSIVE Factorial(_)
Factorial(n) == IF n <= 1 THEN 1 ELSE n * Factorial(n - 1)

\* ticks per second: every step 1 / samplesPerSecond is a whole number of ticks
TicksPerSec == Factorial(MaxSamples)

\* step = 1 / Math.max(1, samplesPerSecond), in ticks
Step(sps) == TicksPerSec \div (IF sps > 1 THEN sps ELSE 1)

RECURSIVE TimesFrom(_, _, _)
\* for (let t = ..; t <= duration + 1e-6; t += step) times.push(Math.min(t, duration))
TimesFrom(t, dur, step) ==
  IF t <= dur
  THEN <<IF t < dur THEN t ELSE dur>> \o TimesFrom(t + step, dur, step)
  ELSE <<>>

\* the characters the class [a-z0-9-_] of the label regex matches under the i flag
LowerChars ==
  {"a", "b", "c", "d", "e", "f", "g", "h", "i", "j", "k", "l", "m",
   "n", "o", "p", "q", "r", "s", "t", "u", "v", "w", "x", "y", "z"}

UpperChars ==
  {"A", "B", "C", "D", "E", "F", "G", "H", "I", "J", "K", "L", "M",
   "N", "O", "P", "Q", "R", "S", "T", "U", "V", "W", "X", "Y", "Z"}

Allowed(ch) ==
  \/ ch \in LowerChars
  \/ ch \in UpperChars
  \/ \E d \in 1..10 : DigitChars[d] = ch
  \/ ch = "-"
  \/ ch = "_"

\* label.replace(/[^a-z0-9-_]/gi, '_'): every character outside the class replaced
Sanitize_PerChar(cs) == [i \in 1..Len(cs) |-> IF Allowed(cs[i]) THEN cs[i] ELSE "_"]

RECURSIVE SkipRun(_)
\* cs after the characters outside the class it starts with: the rest of a match
SkipRun(cs) ==
  IF cs = <<>> \/ Allowed(Head(cs)) THEN cs ELSE SkipRun(Tail(cs))

RECURSIVE Sanitize(_)
\* label.replace(/[^a-z0-9-_]+/gi, '_'): every match, a longest run of characters
\* outside the class, replaced by one '_'
Sanitize(cs) ==
  IF cs = <<>> THEN <<>>
  ELSE IF Allowed(Head(cs)) THEN <<Head(cs)>> \o Sanitize(Tail(cs))
  ELSE <<"_">> \o Sanitize(SkipRun(Tail(cs)))

\* label: `Angle ${nextId - 1}`, the label addCameraAngle gives the camera id
DefaultLabel(id) == <<"A", "n", "g", "l", "e", " ">> \o NatStr(id)

\* cam.label.replace(...) || `Angle_${cam.id}`: the empty string is falsy
SafeLabel(label, id) ==
  IF Sanitize(label) # <<>> THEN Sanitize(label)
  ELSE <<"A", "n", "g", "l", "e", "_">> \o NatStr(id)

\* the hundredths of a second nearest to ts / perSec seconds
CentisAt(ts, perSec) == (200 * ts + perSec) \div (2 * perSec)

\* ts.toFixed(2), in hundredths of a second
Centis(ts) == CentisAt(ts, TicksPerSec)

\* ts.toFixed(2) for the ts of c hundredths: two decimals
ToFixed2(c) ==
  NatStr(c \div 100) \o <<".", DigitChars[((c \div 10) % 10) + 1], DigitChars[(c % 10) + 1]>>

\* .replace(/\./g, '_')
ReplaceDots(cs) == [i \in 1..Len(cs) |-> IF cs[i] = "." THEN "_" ELSE cs[i]]

\* fname: `${safeLabel}_${tsStr}.jpg`
EntryName(label, id, c) ==
  SafeLabel(label, id) \o <<"_">> \o ReplaceDots(ToFixed2(c)) \o <<".", "j", "p", "g">>

\* fname for the camera with id cam and the label addCameraAngle gave it
FileName(ts, cam) == EntryName(DefaultLabel(cam), cam, Centis(ts))

\* setTimeout(r, 100): the delay before the retry, in ms
RetryDelayMs == 100

\* a failed cell is never tried again
CellFailure_NoRetry(out, att) == "skip"

\* a failed cell is tried once more, whatever the error
CellFailure_RetryAny(out, att) == IF att = 1 THEN "retry" ELSE "skip"

\* the catch blocks of a cell: the first call's busy error leads to the retry, any
\* other failure to the skip
CellFailure(out, att) == IF out = "busy" /\ att = 1 THEN "retry" ELSE "skip"

\* the loops visit the cells angle by angle, then timestamp by timestamp
AfterCell_AngleMajor(c) ==
  IF cancelExport THEN <<0, 0>>
  ELSE IF c[1] < Len(times) THEN <<c[1] + 1, c[2]>>
  ELSE IF c[2] < Len(angles) THEN <<1, c[2] + 1>>
  ELSE <<0, 0>>

\* the loops going on although cancelExport is set
AfterCell_IgnoreCancel(c) ==
  IF c[2] < Len(angles) THEN <<c[1], c[2] + 1>>
  ELSE IF c[1] < Len(times) THEN <<c[1] + 1, 1>>
  ELSE <<0, 0>>

\* the two loops from the end of cell c on: the next cell, or <<0, 0>> when the
\* loops are left (a break on cancelExport, or no cell left)
AfterCell(c) ==
  IF cancelExport THEN <<0, 0>>
  ELSE IF c[2] < Len(angles) THEN <<c[1], c[2] + 1>>
  ELSE IF c[1] < Len(times) THEN <<c[1] + 1, 1>>
  ELSE <<0, 0>>

\* done that stays as it is
CellDone_Stuck(d) == d

\* done++
CellDone(d) == d + 1

\* the outer finally of extractFrames and its return
ExportReturn ==
  /\ exporting' = FALSE
  /\ NoRun

\* the finally of a cell whose try left the files z in zip, then the loops up to
\* the next frameAt call, or the code after the loops
EndCell(op, out, z) ==
  /\ exportProgress' = [num |-> CellDone(done), den |-> total]
  /\ IF AfterCell(cell) # <<0, 0>>
     THEN /\ cell' = AfterCell(cell)
          /\ attempt' = 1
          /\ xpc' = "frameAt"
          /\ done' = CellDone(done)
          /\ zip' = z
          /\ xev' = PageEvent(op, out, TRUE, FALSE)
          /\ UNCHANGED <<exporting, duration, times, total>>
     ELSE IF ~cancelExport
     THEN /\ cell' = <<0, 0>>
          /\ attempt' = 0
          /\ xpc' = "zip"
          /\ done' = CellDone(done)
          /\ zip' = z
          /\ xev' = PageEvent(op, out, FALSE, FALSE)
          /\ UNCHANGED <<exporting, duration, times, total>>
     ELSE /\ ExportReturn
          /\ xev' = PageEvent(op, out, FALSE, TRUE)

\* a failure inside the try of a cell, with error out
FailCell(op, out) ==
  IF CellFailure(out, attempt) = "retry"
  THEN /\ xpc' = "delay"
       /\ xev' = [PageEvent(op, out, FALSE, FALSE) EXCEPT !.wait = RetryDelayMs]
       /\ UNCHANGED <<exporting, exportProgress, duration, times, total, done, zip,
                      cell, attempt>>
  ELSE EndCell(op, out, zip)

\* extractFrames(), up to its first await: the three early returns, or the setup
\* of the run and the frameAt call of the first cell
ExtractFramesCall(hasProvider, dur, sps, n) ==
  /\ xpc = "idle"
  /\ ~exporting
  /\ samplesPerSecond' = sps
  /\ angles' = [i \in 1..n |-> i]
  /\ IF ~hasProvider \/ n = 0 \/ dur <= 0
     THEN /\ error' = (IF ~hasProvider THEN "No video/provider loaded."
                       ELSE IF n = 0 THEN "Please add at least one camera angle."
                       ELSE "Unknown video duration.")
          /\ xev' = PageEvent("extractFrames", "error", FALSE, TRUE)
          /\ UNCHANGED <<exporting, exportProgress, cancelExport, duration, times, total,
                         done, zip, cell, attempt, xpc, archive>>
     ELSE /\ exporting' = TRUE
          /\ exportProgress' = [num |-> 0, den |-> 1]
          /\ cancelExport' = FALSE
          /\ duration' = dur
          /\ times' = TimesFrom(0, dur, Step(sps))
          /\ total' = Len(times') * n
          /\ done' = 0
          /\ zip' = {}
          /\ cell' = <<1, 1>>
          /\ attempt' = 1
          /\ xpc' = "frameAt"
          /\ archive' = NoArchive
          /\ xev' = PageEvent("extractFrames", "run", TRUE, FALSE)
          /\ UNCHANGED error

\* await frameProvider.frameAt(ts, cam.angle, outW, outH) settles
FrameAtSettle ==
  /\ xpc = "frameAt"
  /\ \E out \in {"ok", "busy", "err"} :
       IF out = "ok"
       THEN /\ xpc' = "imgload"
            /\ xev' = PageEvent("frameAt", out, FALSE, FALSE)
            /\ UNCHANGED <<exporting, exportProgress, duration, times, total, done, zip,
                           cell, attempt>>
       ELSE FailCell("frameAt", out)
  /\ UNCHANGED <<cancelExport, error, samplesPerSecond, angles, archive>>

\* await new Promise((res) => img.onload = res) settles
ImgLoadSettle ==
  /\ xpc = "imgload"
  /\ xpc' = "toBlob"
  /\ xev' = PageEvent("imgload", "ok", FALSE, FALSE)
  /\ UNCHANGED <<exporting, exportProgress, cancelExport, error, duration,
                 samplesPerSecond, angles, times, total, done, zip, cell, attempt, archive>>

\* the image fires its error event: img.onerror has no handler, so the promise of
\* `await new Promise((res) => img.onload = res)` stays pending
ImgErrorEvent ==
  /\ xpc = "imgload"
  /\ xpc' = "imgerror"
  /\ xev' = PageEvent("imgload", "err", FALSE, FALSE)
  /\ UNCHANGED <<exporting, exportProgress, cancelExport, error, duration,
                 samplesPerSecond, angles, times, total, done, zip, cell, attempt, archive>>

\* the toBlob await settles: the file goes into the zip, or zip.file throws
ToBlobSettle ==
  /\ xpc = "toBlob"
  /\ \E ok \in BOOLEAN :
       IF ok
       THEN EndCell("toBlob", "ok", zip \cup {FileName(times[cell[1]], angles[cell[2]])})
       ELSE FailCell("toBlob", "err")
  /\ UNCHANGED <<cancelExport, error, samplesPerSecond, angles, archive>>

\* the setTimeout of the busy branch fires: the second frameAt call of the cell
DelaySettle ==
  /\ xpc = "delay"
  /\ xpc' = "frameAt"
  /\ attempt' = attempt + 1
  /\ xev' = PageEvent("delay", "ok", TRUE, FALSE)
  /\ UNCHANGED <<exporting, exportProgress, cancelExport, error, duration,
                 samplesPerSecond, angles, times, total, done, zip, cell, archive>>

\* await zip.generateAsync settles: the download, then the outer finally
ZipSettle ==
  /\ xpc = "zip"
  /\ \E ok \in BOOLEAN :
       /\ archive' = (IF ok THEN zip ELSE archive)
       /\ xev' = PageEvent("zip", IF ok THEN "ok" ELSE "err", FALSE, TRUE)
  /\ ExportReturn
  /\ UNCHANGED <<exportProgress, cancelExport, error, samplesPerSecond, angles>>

\* the Cancel button, shown while exporting
CancelClick ==
  /\ exporting
  /\ cancelExport' = TRUE
  /\ xev' = PageEvent("cancel", "ok", FALSE, FALSE)
  /\ UNCHANGED <<exporting, exportProgress, error, duration, samplesPerSecond, angles,
                 times, total, done, zip, cell, attempt, xpc, archive>>

NextExport ==
  /\ \/ \E hasProvider \in BOOLEAN, dur \in 0..MaxDuration, sps \in 0..MaxSamples,
          n \in 0..MaxAngles : ExtractFramesCall(hasProvider, dur, sps, n)
     \/ FrameAtSettle
     \/ ImgLoadSettle
     \/ ImgErrorEvent
     \/ ToBlobSettle
     \/ DelaySettle
     \/ ZipSettle
     \/ CancelClick
  /\ UNCHANGED <<vars, svars, morevars>>

SpecExport == Init /\ [][NextExport]_allvars

(***************************************************************************)
(* Properties of the export run                                            *)
(***************************************************************************)
\* cell c comes before cell d: an earlier timestamp, or the same timestamp and an
\* earlier place in the angle list
CellBefore(c, d) ==
  \/ times[c[1]] < times[d[1]]
  \/ times[c[1]] = times[d[1]] /\ c[2] < d[2]

\* C13: extractFrames issues its frameAt calls one at a time, each one only when
\* the one before has settled, in timestamp-major then angle-list order: a step
\* that issues a call is the start of the run at the first cell, the single retry
\* of the same cell after its busy failure, or the move from a cell whose call had
\* settled to a later cell in that order.
C13_SequentialInOrder ==
  [][xev'.issued =>
       /\ xpc' = "frameAt"
       /\ xpc \in {"idle", "frameAt", "toBlob", "delay"}
       /\ xpc = "frameAt" => xev'.op = "frameAt"
       /\ \/ /\ xev'.op = "extractFrames"
             /\ xpc = "idle"
             /\ cell' = <<1, 1>>
             /\ attempt' = 1
          \/ /\ xev'.op = "delay"
             /\ xpc = "delay"
             /\ cell' = cell
             /\ attempt = 1
             /\ attempt' = 2
          \/ /\ xev'.op \in {"frameAt", "toBlob"}
             /\ attempt' = 1
             /\ times' = times
             /\ cell'[1] \in 1..Len(times)
             /\ cell'[2] \in 1..Len(angles)
             /\ CellBefore(cell, cell')]_allvars

\* the run went from the last angle of the first timestamp to the first angle of the
\* second
C13_Witness ==
  /\ xev.issued
  /\ xev.op \in {"frameAt", "toBlob"}
  /\ xpc = "frameAt"
  /\ Len(angles) = 2
  /\ cell = <<2, 1>>

\* C14: in a run with duration D > 0 and samplesPerSecond >= 1 the timestamps are
\* 0, step, 2*step, ..., in increasing order and at most D, total is their number
\* times the number of angles, and the last timestamp equals D.
C14_LastTimestampIsDuration ==
  (exporting /\ samplesPerSecond >= 1) =>
    /\ times # <<>>
    /\ \A i \in 1..Len(times) : times[i] = (i - 1) * Step(samplesPerSecond) /\ times[i] <= duration
    /\ total = Len(times) * Len(angles)
    /\ times[Len(times)] = duration

\* a step in which the try of the current cell fails with error out
CellFails(out) ==
  /\ xpc \in {"frameAt", "toBlob"}
  /\ xev'.op = (IF xpc = "frameAt" THEN "frameAt" ELSE "toBlob")
  /\ xev'.out = out

\* a step that ends the current cell: its finally has run
CellEnds ==
  /\ xpc \in {"frameAt", "toBlob"}
  /\ xev'.op \in {"frameAt", "toBlob"}
  /\ xpc' # "imgload"
  /\ xpc' # "delay"

\* C15: when the first frameAt call of a cell fails with the busy error,
\* extractFrames waits and then calls frameAt for the same cell once more; when
\* the second attempt fails, for any reason, the cell ends with no image added
\* and the run goes on with the next cell; no cell is attempted more than twice.
C15_BusyRetriedOnce ==
  [][/\ (CellFails("busy") /\ attempt = 1) =>
          /\ xpc' = "delay"
          /\ xev'.wait = RetryDelayMs
          /\ ~xev'.issued
          /\ <<cell', attempt', zip', done', exportProgress'>>
               = <<cell, attempt, zip, done, exportProgress>>
     /\ (xpc = "delay" /\ xpc' # "delay") =>
          /\ xpc' = "frameAt"
          /\ xev'.issued
          /\ cell' = cell
          /\ attempt' = 2
          /\ zip' = zip
     /\ (attempt = 2 /\ (CellFails("busy") \/ CellFails("err"))) =>
          /\ CellEnds
          /\ exporting' => (zip' = zip /\ done' = done + 1)
          /\ ~cancelExport =>
               /\ exporting'
               /\ IF cell = <<Len(times), Len(angles)>>
                  THEN xpc' = "zip"
                  ELSE xpc' = "frameAt" /\ attempt' = 1 /\ CellBefore(cell, cell')
     /\ attempt' \in 0..2]_allvars

\* the second attempt of a cell is in flight after its busy failure and the delay
C15_Witness ==
  /\ xpc = "frameAt"
  /\ attempt = 2
  /\ xev.op = "delay"
  /\ xev.issued

\* the run goes on from cell c to the cell right after it in the loop order
NextInOrder(c, d) ==
  /\ d[1] \in 1..Len(times)
  /\ d[2] \in 1..Len(angles)
  /\ CellBefore(c, d)
  /\ ~\E i \in 1..Len(times), j \in 1..Len(angles) :
        CellBefore(c, <<i, j>>) /\ CellBefore(<<i, j>>, d)

\* C16: when a cell fails with an error other than busy it is not retried, no
\* image is added for it, and the run goes on: while the export is not
\* cancelled, the end of any cell leads to the very next cell or, after the last
\* cell, to the generation of the archive, which then holds the images added.
C16_BestEffort ==
  [][/\ CellFails("err") =>
          /\ CellEnds
          /\ attempt' # attempt + 1
          /\ exporting' => (zip' = zip /\ done' = done + 1)
     /\ (CellEnds /\ ~cancelExport) =>
          /\ exporting'
          /\ IF cell = <<Len(times), Len(angles)>>
             THEN xpc' = "zip"
             ELSE xpc' = "frameAt" /\ xev'.issued /\ attempt' = 1 /\ NextInOrder(cell, cell')
     /\ (xpc = "zip" /\ xev'.op = "zip" /\ xev'.out = "ok") => archive' = zip]_allvars

\* the first cell failed with an error other than busy at its first attempt and
\* the second cell is in flight
C16_Witness ==
  /\ xpc = "frameAt"
  /\ xev.op = "frameAt"
  /\ xev.out = "err"
  /\ xev.issued
  /\ cell = <<1, 2>>
  /\ attempt = 1
  /\ done = 1
  /\ zip = {}

\* a cell is in flight: between its frameAt call and its finally
InCell == xpc \in {"frameAt", "imgload", "imgerror", "toBlob", "delay"}

\* C17: once cancelExport is set during an export no frameAt is issued for a cell
\* that had not begun, only the retry of the cell in flight; the click changes
\* nothing but the flag, and the cell in flight goes through its awaits and its
\* finally as it would without the flag, which is read at the end of the cell only.
C17_CancelBetweenCells ==
  [][/\ (exporting /\ cancelExport /\ xev'.issued) =>
          /\ xev'.op = "delay"
          /\ cell' = cell
     /\ xev'.op = "cancel" =>
          /\ cancelExport'
          /\ <<exporting', xpc', cell', attempt', zip', done', exportProgress', archive'>>
               = <<exporting, xpc, cell, attempt, zip, done, exportProgress, archive>>
     /\ (InCell /\ cancelExport /\ xev'.op # "cancel") =>
          /\ xpc = "imgload" => xpc' \in {"toBlob", "imgerror"}
          /\ xpc = "delay" => xpc' = "frameAt" /\ attempt' = 2
          /\ (xpc = "frameAt" /\ xev'.out = "ok") => xpc' = "imgload"
          /\ (CellFails("busy") /\ attempt = 1) => xpc' = "delay"
          /\ InCell' => <<cell', zip', done'>> = <<cell, zip, done>>
          /\ ~InCell' => /\ CellEnds
                         /\ exportProgress' = [num |-> done + 1, den |-> total]
                         /\ ~exporting'
                         /\ xev'.ended]_allvars

\* the cell in flight when the export was cancelled went on to its toBlob and its
\* finally, and the run ended there with cells left
C17_Witness ==
  /\ cancelExport
  /\ ~exporting
  /\ xev.op = "toBlob"
  /\ xev.out = "ok"
  /\ xev.ended
  /\ exportProgress.num < exportProgress.den

\* C18: when an export is cancelled after k cells have completed successfully, the
\* run yields an archive that holds exactly the k images of the completed cells.
C18_CancelledArchive ==
  [][(InCell /\ cancelExport /\ exporting /\ ~exporting') =>
       archive' = (IF xev'.op = "toBlob" /\ xev'.out = "ok"
                   THEN zip \cup {FileName(times[cell[1]], angles[cell[2]])}
                   ELSE zip)]_allvars

\* C19: in every state of an export run 0 <= done <= total and exportProgress =
\* done / total; done goes up by exactly one at the end of each cell, whether the
\* cell succeeded, was retried or was skipped, and never goes down during the run;
\* when the loops end without cancellation done = total and exportProgress = 1.
C19_Progress ==
  [][/\ exporting' =>
          /\ done' \in 0..total'
          /\ exportProgress'.num * total' = done' * exportProgress'.den
          /\ exportProgress'.den > 0
     /\ (exporting /\ exporting') =>
          /\ total' = total
          /\ done' = (IF CellEnds THEN done + 1 ELSE done)
     /\ (exporting /\ ~exporting' /\ InCell) =>
          /\ CellEnds
          /\ exportProgress' = [num |-> done + 1, den |-> total]
          /\ done + 1 <= total
     /\ (xpc' = "zip" /\ xpc # "zip") =>
          /\ done' = total'
          /\ exportProgress'.num = exportProgress'.den
     /\ (xpc = "zip" /\ ~exporting' /\ ~cancelExport) =>
          exportProgress'.num = exportProgress'.den]_allvars

\* a run of six cells, one of them skipped and one retried, is over all its cells
C19_Witness ==
  /\ xpc = "zip"
  /\ total = 6
  /\ done = 6
  /\ Cardinality(zip) = 5
  /\ exportProgress = [num |-> 6, den |-> 6]

(***************************************************************************)
(* aspectRatioValue and computeOutputSize (App.svelte): the output size.   *)
(* A ratio w / h is kept as the pair <<w, h>>.                             *)
(***************************************************************************)
\* customAspectW and customAspectH entered by the user
MaxCustom == 3
\* source widths are the multiples of WidthUnit up to MaxWidthUnits * WidthUnit
MaxWidthUnits == 6
WidthUnit == 640

\* Math.min(1920, ...): the cap of the base width
MaxBaseW == 1920
\* Math.max(320, ...): the least width and the least height
MinEdge == 320

AspectPresets == {"16:9", "9:16", "1:1", "4:3"}

\* the characters of a preset
PresetChars(p) ==
  CASE p = "16:9" -> <<"1", "6", ":", "9">>
    [] p = "9:16" -> <<"9", ":", "1", "6">>
    [] p = "1:1" -> <<"1", ":", "1">>
    [] p = "4:3" -> <<"4", ":", "3">>

\* the index of the first sep in cs, 0 if there is none
IndexOf(cs, sep) ==
  IF \E i \in 1..Len(cs) : cs[i] = sep
  THEN CHOOSE i \in 1..Len(cs) : cs[i] = sep /\ \A j \in 1..(i - 1) : cs[j] # sep
  ELSE 0

RECURSIVE ParseNat(_)
\* Number(s) for a string of decimal digits
ParseNat(cs) ==
  IF cs = <<>> THEN 0
  ELSE 10 * ParseNat(SubSeq(cs, 1, Len(cs) - 1))
       + ((CHOOSE d \in 1..10 : DigitChars[d] = cs[Len(cs)]) - 1)

\* const [w, h] = aspectPreset.split(':').map(Number)
PresetRatio(p) ==
  LET cs == PresetChars(p)
      k == IndexOf(cs, ":")
  IN <<ParseNat(SubSeq(cs, 1, k - 1)), ParseNat(SubSeq(cs, k + 1, Len(cs)))>>

\* aspectRatioValue()
AspectRatioValue(preset, cw, ch) ==
  IF preset # "Custom" THEN PresetRatio(preset)
  ELSE IF cw > 0 /\ ch > 0 THEN <<cw, ch>>
  ELSE <<16, 9>>

\* Math.round(a / b) for integers a >= 0, b > 0
RoundDiv(a, b) == (2 * a + b) \div (2 * b)

\* computeOutputSize() for a video of width vw (0 when there is none)
ComputeOutputSizeOf(preset, cw, ch, vw) ==
  LET ratio == AspectRatioValue(preset, cw, ch)
      baseW == IF vw # 0 /\ vw < MaxBaseW THEN vw ELSE MaxBaseW
      w == IF baseW > MinEdge THEN baseW ELSE MinEdge
      h0 == RoundDiv(w * ratio[2], ratio[1])
      h == IF h0 > MinEdge THEN h0 ELSE MinEdge
  IN [w |-> w, h |-> h]

\* the aspect select
SelectAspect(p) ==
  /\ aspectPreset' = p
  /\ UNCHANGED <<customAspectW, customAspectH, videoWidth, outSize>>

\* the custom aspect inputs
SetCustomAspect(cw, ch) ==
  /\ customAspectW' = cw
  /\ customAspectH' = ch
  /\ UNCHANGED <<aspectPreset, videoWidth, outSize>>

\* a video of width vw is loaded into videoEl
LoadVideo(vw) ==
  /\ videoWidth' = vw
  /\ UNCHANGED <<aspectPreset, customAspectW, customAspectH, outSize>>

\* a call of computeOutputSize()
ComputeOutputSize ==
  /\ outSize' = ComputeOutputSizeOf(aspectPreset, customAspectW, customAspectH, videoWidth)
  /\ UNCHANGED <<aspectPreset, customAspectW, customAspectH, videoWidth>>

NextSize ==
  /\ \/ \E p \in AspectPresets \cup {"Custom"} : SelectAspect(p)
     \/ \E cw \in 0..MaxCustom, ch \in 0..MaxCustom : SetCustomAspect(cw, ch)
     \/ \E k \in 0..MaxWidthUnits : LoadVideo(k * WidthUnit)
     \/ ComputeOutputSize
  /\ UNCHANGED <<vars, xvars, morevars>>

SpecSize == Init /\ [][NextSize]_allvars

\* the size last computed is the one of the inputs as they are now
SizeIsCurrent ==
  outSize = ComputeOutputSizeOf(aspectPreset, customAspectW, customAspectH, videoWidth)

\* C20: computeOutputSize caps the long edge of the output: for every aspect
\* preset, every valid custom ratio and every source width, max(w, h) of the size
\* it returns is at most 1920; preset 1:1 with source width 3840 gives 1920 x 1920.
C20_LongEdgeCapped ==
  /\ outSize.w <= MaxBaseW
  /\ outSize.h <= MaxBaseW
  /\ (SizeIsCurrent /\ aspectPreset = "1:1" /\ videoWidth = 3840) =>
        outSize = [w |-> 1920, h |-> 1920]

(***************************************************************************)
(* The entry names of the zip, for labels the user typed into the cards.   *)
(***************************************************************************)
\* the longest label of the first cell
MaxLabelLen == 3
\* the longest label of the second cell
MaxLabelLenB == 1
\* the timestamps of the cells, in ticks of 1 / NameTicksPerSec seconds
MaxNameTs == 2
NameTicksPerSec == 300

\* characters typed into a label: inside the class, and outside it
LabelChars == {"a", "Z", "7", "_", " ", "!"}

\* the labels of at most n characters
LabelsUpTo(n) == UNION {[1..k -> LabelChars] : k \in 0..n}

\* an export cell: the label and the id of the camera, and the timestamp
NameCells(n) == [label : LabelsUpTo(n), id : 1..MaxAngles, ts : 0..MaxNameTs]

InitName ==
  /\ CoreInit
  /\ PreviewInit
  /\ AppInit
  /\ LockInit
  /\ FactoryInit
  /\ SampleInit
  /\ nameIn \in {<<a, b>> : a \in NameCells(MaxLabelLen), b \in NameCells(MaxLabelLenB)}
  /\ nameOut = <<>>

\* lines 308-310 for the two cells
MakeNames ==
  /\ nameOut = <<>>
  /\ nameOut' = [k \in 1..2 |->
                   EntryName(nameIn[k].label, nameIn[k].id,
                             CentisAt(nameIn[k].ts, NameTicksPerSec))]
  /\ UNCHANGED nameIn

NextName ==
  /\ MakeNames
  /\ UNCHANGED <<vars, xvars, svars, pvars, avars, fvars, bvars, cvars>>

SpecName == InitName /\ [][NextName]_allvars

\* '<safe>_<seconds>_<two decimals>.jpg' for the timestamp of c hundredths
HasNameForm(fname, safe, c) ==
  LET n == Len(fname)
      m == Len(safe)
  IN /\ n >= m + 9
     /\ SubSeq(fname, 1, m) = safe
     /\ fname[m + 1] = "_"
     /\ \A i \in (m + 2)..(n - 7) : \E d \in 1..10 : DigitChars[d] = fname[i]
     /\ ParseNat(SubSeq(fname, m + 2, n - 7)) = c \div 100
     /\ fname[n - 6] = "_"
     /\ \A i \in (n - 5)..(n - 4) : \E d \in 1..10 : DigitChars[d] = fname[i]
     /\ ParseNat(SubSeq(fname, n - 5, n - 4)) = c % 100
     /\ SubSeq(fname, n - 3, n) = <<".", "j", "p", "g">>

\* the label with every character outside the class replaced by '_'
EachReplaced(cs) == [i \in 1..Len(cs) |-> IF Allowed(cs[i]) THEN cs[i] ELSE "_"]

\* the label with every run of characters outside the class replaced by one '_':
\* of EachReplaced, the places that are in the class or start a run
RunsReplaced(cs) ==
  LET K == {i \in 1..Len(cs) : Allowed(cs[i]) \/ i = 1 \/ Allowed(cs[i - 1])}
      at == [j \in 1..Cardinality(K) |->
               CHOOSE i \in K : Cardinality({k \in K : k < i}) = j - 1]
  IN [j \in 1..Cardinality(K) |-> EachReplaced(cs)[at[j]]]

\* 'Angle_<id>'
FallbackLabel(id) == <<"A", "n", "g", "l", "e", "_">> \o NatStr(id)

\* C21 as stated: the sanitized label has one '_' for each character outside
\* [a-zA-Z0-9-_], a label with no character of the class gives 'Angle_<id>', and
\* the entry name is '<sanitized>_<timestamp, 2 decimals, '.' as '_'>.jpg'.
C21_OnePerCharacter ==
  nameOut # <<>> =>
    \A k \in 1..2 :
      LET lb == nameIn[k].label
      IN HasNameForm(nameOut[k],
                     IF \E i \in 1..Len(lb) : Allowed(lb[i])
                     THEN EachReplaced(lb) ELSE FallbackLabel(nameIn[k].id),
                     CentisAt(nameIn[k].ts, NameTicksPerSec))

\* C21: the sanitized label is the camera label with every run of characters
\* outside [a-zA-Z0-9-_] replaced by one '_'; only the empty label falls back to
\* 'Angle_<id>'; the entry name is '<sanitized>_<timestamp with 2 decimals, '.'
\* replaced by '_'>.jpg'.
C21_RunsReplaced ==
  nameOut # <<>> =>
    \A k \in 1..2 :
      LET lb == nameIn[k].label
      IN HasNameForm(nameOut[k],
                     IF lb # <<>> THEN RunsReplaced(lb) ELSE FallbackLabel(nameIn[k].id),
                     CentisAt(nameIn[k].ts, NameTicksPerSec))

\* the label 'a !' at 2/300 s is named 'a__0_01.jpg'
C21_Witness ==
  /\ nameIn[1].label = <<"a", " ", "!">>
  /\ nameIn[1].ts = 2
  /\ nameOut # <<>>
  /\ nameOut[1] = <<"a", "_", "_", "0", "_", "0", "1", ".", "j", "p", "g">>

\* the two cells can be cells of one export: two cameras (two ids), or one camera
\* (one id, one label) at two timestamps
CellsOfOneExport ==
  /\ nameIn[1].id = nameIn[2].id => nameIn[1].label = nameIn[2].label
  /\ nameIn[1].id # nameIn[2].id \/ nameIn[1].ts # nameIn[2].ts

\* C22: within one export two distinct (timestamp, angle) cells never get the same
\* entry name, whatever the labels of the cameras and samplesPerSecond >= 1, so
\* that the archive of a run whose cells all render holds one image per cell.
C22_NamesDistinct ==
  (nameOut # <<>> /\ CellsOfOneExport) => nameOut[1] # nameOut[2]

(***************************************************************************)
(* The previews of the cards (App.svelte): the reactive block,             *)
(* handleTimeUpdate, updateAnglePreview and updateAnglePreviewInternal.    *)
(***************************************************************************)
\* cards on the page
MaxCams == 2
\* the values a slider is moved to: 0 is the angle of a new card
MaxEdit == 1
\* the clock advances MaxClockSteps times by ClockStepMs
MaxClockSteps == 4
ClockStepMs == 100

\* the state of the export run but the error shown
xrest == <<exporting, exportProgress, cancelExport, duration, samplesPerSecond, angles,
           times, total, done, zip, cell, attempt, xpc, archive, xev>>

\* the state of a chain of updateAnglePreview calls made in one task
PreviewRun(tick, calls, at, clean) ==
  [tick |-> tick, calls |-> calls, at |-> at, clean |-> clean]

\* updateAnglePreview without the throttle
UpdateAnglePreview_NoThrottle(cs, c, hasProvider, r) ==
  IF exporting THEN r
  ELSE IF ~hasProvider THEN PreviewRun(now, r.calls, r.at, FALSE)
  ELSE PreviewRun(now, r.calls \cup {[cam |-> c, val |-> cs[c].val, at |-> now]},
                  Append(r.at, now), r.clean)

\* updateAnglePreview(angles[c]) over the cards cs, and the part of
\* updateAnglePreviewInternal before its await: the call is dropped inside the
\* throttle interval, and makes no frameAt call without a provider
UpdateAnglePreview(cs, c, hasProvider, r) ==
  IF exporting THEN r
  ELSE IF now - r.tick < PREVIEW_THROTTLE_MS THEN r
  ELSE IF ~hasProvider THEN PreviewRun(now, r.calls, r.at, FALSE)
  ELSE PreviewRun(now, r.calls \cup {[cam |-> c, val |-> cs[c].val, at |-> now]},
                  Append(r.at, now), r.clean)

RECURSIVE ForAngles(_, _, _, _)
\* for (const angle of angles) updateAnglePreview(angle), from card c of cs on
ForAngles(cs, c, hasProvider, r) ==
  IF c > Len(cs) THEN r
  ELSE ForAngles(cs, c + 1, hasProvider, UpdateAnglePreview(cs, c, hasProvider, r))

\* the reactive block over the cards cs: lines 201-225
ReactiveBlock(cs, hasProvider, r) ==
  IF exporting THEN r
  ELSE IF now - r.tick >= PREVIEW_THROTTLE_MS THEN ForAngles(cs, 1, hasProvider, r)
  ELSE r

\* the state of the preview path is that of run r
Becomes(r) ==
  /\ lastPreviewTick' = r.tick
  /\ pcalls' = r.calls
  /\ issuedAt' = r.at
  /\ pclean' = r.clean

\* the state of the preview path as a run
Current == PreviewRun(lastPreviewTick, pcalls, issuedAt, pclean)

\* the catch block of updateAnglePreviewInternal surfacing the error
PreviewCatch_Surface(err) == "Preview update failed"

\* the catch block of updateAnglePreviewInternal: a warning on the console at most
PreviewCatch(err) == err

\* Date.now() moves on
ClockTick ==
  /\ now < PREVIEW_THROTTLE_MS + MaxClockSteps * ClockStepMs
  /\ now' = now + ClockStepMs
  /\ pev' = [op |-> "tick", ok |-> TRUE]
  /\ UNCHANGED <<lastPreviewTick, cams, pcalls, issuedAt, pclean, error>>

\* addCameraAngle, then the reactive block, which angles = [...] invalidates
AddCameraAngle(hasProvider) ==
  /\ Len(cams) < MaxCams
  /\ ~exporting
  /\ cams' = Append(cams, [val |-> 0, shown |-> -1, edited |-> FALSE])
  /\ Becomes(ReactiveBlock(cams', hasProvider, Current))
  /\ pev' = [op |-> "add", ok |-> TRUE]
  /\ UNCHANGED <<now, error>>

\* a slider of card c moved to v: bind:value, then on:input calls updateAnglePreview
SliderInput(c, v, hasProvider) ==
  /\ c \in 1..Len(cams)
  /\ cams' = [cams EXCEPT ![c].val = v, ![c].edited = TRUE]
  /\ Becomes(UpdateAnglePreview(cams', c, hasProvider, Current))
  /\ pev' = [op |-> "input", ok |-> TRUE]
  /\ UNCHANGED <<now, error>>

\* the Update preview button of card c
UpdatePreviewClick(c, hasProvider) ==
  /\ c \in 1..Len(cams)
  /\ Becomes(UpdateAnglePreview(cams, c, hasProvider, Current))
  /\ pev' = [op |-> "click", ok |-> TRUE]
  /\ UNCHANGED <<now, cams, error>>

\* the reactive block runs: a slider released (on:change, touchAngles), a setting
\* changed
ReactiveRun(hasProvider) ==
  /\ Becomes(ReactiveBlock(cams, hasProvider, Current))
  /\ pev' = [op |-> "reactive", ok |-> TRUE]
  /\ UNCHANGED <<now, cams, error>>

\* handleTimeUpdate: the timeupdate event of the player
HandleTimeUpdate(hasProvider) ==
  /\ IF now - lastPreviewTick < PREVIEW_THROTTLE_MS
     THEN Becomes(Current)
     ELSE Becomes(ForAngles(cams, 1, hasProvider, Current))
  /\ pev' = [op |-> "timeupdate", ok |-> TRUE]
  /\ UNCHANGED <<now, cams, error>>

\* the frameAt call k of a preview settles: lines 382-391; after touchAngles the
\* reactive block runs
PreviewSettle(k, ok, hasProvider) ==
  /\ k \in pcalls
  /\ IF ok
     THEN /\ cams' = [cams EXCEPT ![k.cam].shown = k.val]
          /\ Becomes(ReactiveBlock(cams', hasProvider,
                                   PreviewRun(lastPreviewTick, pcalls \ {k}, issuedAt, pclean)))
          /\ error' = error
     ELSE /\ cams' = cams
          /\ Becomes(PreviewRun(lastPreviewTick, pcalls \ {k}, issuedAt, FALSE))
          /\ error' = PreviewCatch(error)
  /\ pev' = [op |-> "settle", ok |-> ok]
  /\ UNCHANGED now

NextPreview ==
  /\ \/ ClockTick
     \/ \E hp \in BOOLEAN : AddCameraAngle(hp)
     \/ \E c \in 1..MaxCams, v \in 0..MaxEdit, hp \in BOOLEAN : SliderInput(c, v, hp)
     \/ \E c \in 1..MaxCams, hp \in BOOLEAN : UpdatePreviewClick(c, hp)
     \/ \E hp \in BOOLEAN : ReactiveRun(hp)
     \/ \E hp \in BOOLEAN : HandleTimeUpdate(hp)
     \/ \E k \in pcalls, ok \in BOOLEAN, hp \in BOOLEAN : PreviewSettle(k, ok, hp)
  /\ UNCHANGED <<vars, xrest, svars, nvars, avars, fvars, bvars, cvars>>

SpecPreview == Init /\ [][NextPreview]_allvars

\* C23: over any sequence of angle edits, time updates and reactive updates, two
\* preview frameAt calls are never initiated less than PREVIEW_THROTTLE_MS apart;
\* the throttle looks at the initiations only, an earlier call may still be in
\* flight when the next is made.
C23_PreviewThrottle ==
  /\ \A i, j \in 1..Len(issuedAt) :
        i < j => issuedAt[j] - issuedAt[i] >= PREVIEW_THROTTLE_MS
  /\ \A k \in pcalls : \E i \in 1..Len(issuedAt) : issuedAt[i] = k.at
  /\ \A i \in 1..Len(issuedAt) : issuedAt[i] <= lastPreviewTick

\* a second preview call was made one interval after the first, which is still in
\* flight
C23_Witness ==
  /\ Len(issuedAt) = 2
  /\ issuedAt[2] - issuedAt[1] = PREVIEW_THROTTLE_MS
  /\ Cardinality(pcalls) = 2

\* C24: when the angle of a card is edited several times in quick succession and
\* then left alone, the preview shown in the end is rendered from the latest
\* angle: once no preview call is in flight, and none has failed or lacked its
\* provider, every edited card shows its current angle.
C24_LatestShown ==
  (pcalls = {} /\ pclean) =>
    \A c \in 1..Len(cams) : cams[c].edited => cams[c].shown = cams[c].val

\* C25: when the frameAt call of a preview update fails, the previewDataUrl of
\* every card and the list of cards stay as they are, the request is dropped
\* with no other frameAt call made in its place, and no error is shown.
C25_PreviewFailureDropped ==
  [][(pev'.op = "settle" /\ ~pev'.ok) =>
       /\ cams' = cams
       /\ pcalls' \subseteq pcalls
       /\ Cardinality(pcalls') = Cardinality(pcalls) - 1
       /\ issuedAt' = issuedAt
       /\ lastPreviewTick' = lastPreviewTick
       /\ error' = error]_allvars

\* the preview call of an edited card failed: the card shows what it showed, no
\* call is in flight and the page shows no error
C25_Witness ==
  /\ pev = [op |-> "settle", ok |-> FALSE]
  /\ pcalls = {}
  /\ Len(cams) = 1
  /\ cams[1].edited
  /\ cams[1].val = 1
  /\ cams[1].shown = 0
  /\ error = "null"

(***************************************************************************)
(* The source of the page (App.svelte): handleFiles, reloadProvider and the *)
(* reactive statement that reloads the provider.                           *)
(***************************************************************************)
\* f.type of the files offered
FileTypes == {"video/mp4", "video/quicktime"}

\* f.name of the files offered
FileNames ==
  { <<"A", ".", "M", "P", "4">>,
    <<"a", ".", "I", "n", "s", "v">>,
    <<"a", ".", "m", "o", "v">>,
    <<"m", "p", "4">>,
    <<"a", ".", "m", "p", "4", ".", "t", "x", "t">> }

Files == [type : FileTypes, name : FileNames]

ProjectionTypes == {"Equirectangular (mono)", "Dual Fisheye (Insta360)"}

\* the upper-case letters of the names, and their lower-case letters
UpperOf == <<"A", "M", "P", "I", "N", "S", "V">>
LowerOf == <<"a", "m", "p", "i", "n", "s", "v">>

\* toLowerCase() of one character
LowerChar(ch) ==
  IF \E i \in 1..Len(UpperOf) : UpperOf[i] = ch
  THEN LowerOf[CHOOSE i \in 1..Len(UpperOf) : UpperOf[i] = ch]
  ELSE ch

\* name.toLowerCase()
ToLowerCase(cs) == [i \in 1..Len(cs) |-> LowerChar(cs[i])]

\* name.endsWith(suffix)
EndsWith(cs, suffix) ==
  /\ Len(cs) >= Len(suffix)
  /\ SubSeq(cs, Len(cs) - Len(suffix) + 1, Len(cs)) = suffix

\* the gate without toLowerCase()
IsSupported_NoLower(f) ==
  \/ f.type = "video/mp4"
  \/ EndsWith(f.name, <<".", "m", "p", "4">>)
  \/ EndsWith(f.name, <<".", "i", "n", "s", "v">>)

\* isMp4 || isInsv of handleFiles
IsSupported(f) ==
  LET lname == ToLowerCase(f.name)
  IN \/ f.type = "video/mp4"
     \/ EndsWith(lname, <<".", "m", "p", "4">>)
     \/ EndsWith(lname, <<".", "i", "n", "s", "v">>)

\* the reloadProvider calls not under way, and the providers not made yet
FreeReloads(T) == {t \in T : rl[t].pc = "idle"}
FreeProvs == {i \in 1..MaxProv : prov[i] = "none"}

\* createProvider(lastFile, lastFile.name, projection) up to its await, in call t,
\* with the lastFile read at the call
CreateProviderCall(t, rl0, prov0, lf) ==
  LET q == CHOOSE i \in 1..MaxProv : prov0[i] = "none" /\ \A j \in 1..(i - 1) : prov0[j] # "none"
  IN /\ rl' = [rl0 EXCEPT ![t] = [pc |-> "create", p |-> q]]
     /\ prov' = [prov0 EXCEPT ![q] = "loading"]
     /\ provFile' = [provFile EXCEPT ![q] = lf]

\* reloadProvider() up to its first await, as call t, with the lastFile given
ReloadProviderCall(t, lf) ==
  IF lf = NoFile
  THEN UNCHANGED <<providerLoading, rl, prov, provFile, frameProvider>>
  ELSE /\ providerLoading' = TRUE
       /\ frameProvider' = frameProvider
       /\ IF frameProvider # 0
          THEN /\ rl' = [rl EXCEPT ![t] = [pc |-> "close", p |-> frameProvider]]
               /\ UNCHANGED <<prov, provFile>>
          ELSE CreateProviderCall(t, rl, prov, lf)

\* handleFiles(files), up to the await of its reloadProvider call; the update that
\* runs the reactive statements comes before any other event (~dirty), and a file
\* is taken while the two reloadProvider calls it leads to are among the calls T
HandleFiles(files, T) ==
  /\ ~dirty
  /\ IF files = <<>>
     THEN /\ error' = "null"
          /\ aev' = [op |-> "handleFiles", ok |-> FALSE, t |-> 0]
          /\ UNCHANGED <<file, lastFile, videoUrl, projection, frameProvider,
                         providerLoading, prov, provFile, rl, dirty, angles>>
     ELSE IF ~IsSupported(files[1])
     THEN /\ error' = "Only MP4 and Insta360 INSV files are supported right now."
          /\ aev' = [op |-> "handleFiles", ok |-> FALSE, t |-> 0]
          /\ UNCHANGED <<file, lastFile, videoUrl, projection, frameProvider,
                         providerLoading, prov, provFile, rl, dirty, angles>>
     ELSE /\ Cardinality(FreeReloads(T)) >= 2
          /\ Cardinality(FreeProvs) >= 2
          /\ error' = "null"
          /\ file' = files[1]
          /\ lastFile' = files[1]
          /\ videoUrl' = files[1]
          /\ projection' = "Dual Fisheye (Insta360)"
          /\ angles' = <<>>
          /\ dirty' = TRUE
          /\ LET t == CHOOSE t \in FreeReloads(T) : \A u \in FreeReloads(T) : t <= u
             IN /\ ReloadProviderCall(t, files[1])
                /\ aev' = [op |-> "handleFiles", ok |-> TRUE, t |-> t]

\* the projection select of the settings panel
ProjectionChange(pr, T) ==
  /\ ~dirty
  /\ pr # projection
  /\ lastFile # NoFile => FreeReloads(T) # {} /\ FreeProvs # {}
  /\ projection' = pr
  /\ dirty' = TRUE
  /\ aev' = [op |-> "projection", ok |-> TRUE, t |-> 0]
  /\ UNCHANGED <<file, lastFile, videoUrl, frameProvider, providerLoading, prov,
                 provFile, rl, error, angles>>

\* the reactive statement $: if (projection && lastFile) reloadProvider(), run in
\* the update after projection or lastFile was assigned, before any other event
ReactiveReload(T) ==
  /\ dirty
  /\ dirty' = FALSE
  /\ IF lastFile = NoFile
     THEN /\ aev' = [op |-> "reactive", ok |-> FALSE, t |-> 0]
          /\ UNCHANGED <<providerLoading, rl, prov, provFile, frameProvider>>
     ELSE /\ LET t == CHOOSE t \in FreeReloads(T) : \A u \in FreeReloads(T) : t <= u
             IN /\ ReloadProviderCall(t, lastFile)
                /\ aev' = [op |-> "reactive", ok |-> TRUE, t |-> t]
  /\ UNCHANGED <<file, lastFile, videoUrl, projection, error, angles>>

\* await frameProvider.close() of call t settles: frameProvider = null, then
\* createProvider up to its await
ReloadCloseSettle(t) ==
  /\ ~dirty
  /\ rl[t].pc = "close"
  /\ FreeProvs # {}
  /\ frameProvider' = 0
  /\ CreateProviderCall(t, rl, [prov EXCEPT ![rl[t].p] = "closed"], lastFile)
  /\ aev' = [op |-> "closed", ok |-> TRUE, t |-> t]
  /\ UNCHANGED <<file, lastFile, videoUrl, projection, providerLoading, dirty, error, angles>>

\* await createProvider(...) of call t settles: the assignment or the catch, then
\* the finally
ReloadCreateSettle(t, ok) ==
  /\ ~dirty
  /\ rl[t].pc = "create"
  /\ IF ok
     THEN /\ frameProvider' = rl[t].p
          /\ prov' = [prov EXCEPT ![rl[t].p] = "live"]
          /\ error' = error
     ELSE /\ frameProvider' = frameProvider
          /\ prov' = [prov EXCEPT ![rl[t].p] = "failed"]
          /\ error' = "Provider load error"
  /\ providerLoading' = FALSE
  /\ rl' = [rl EXCEPT ![t] = IdleReload]
  /\ aev' = [op |-> "created", ok |-> ok, t |-> t]
  /\ UNCHANGED <<file, lastFile, videoUrl, projection, provFile, dirty, angles>>

\* addCameraAngle: the assignment angles = [...angles, newAngle]; the preview it
\* asks for is in AddCameraAngle
AppendAngle ==
  /\ ~dirty
  /\ Len(angles) < MaxAngles
  /\ angles' = Append(angles, Len(angles) + 1)
  /\ aev' = [op |-> "add", ok |-> TRUE, t |-> 0]
  /\ UNCHANGED <<file, lastFile, videoUrl, projection, frameProvider, providerLoading,
                 prov, provFile, rl, dirty, error>>

\* the state of the export run but the error shown and the angles
xrest2 == <<exporting, exportProgress, cancelExport, duration, samplesPerSecond,
            times, total, done, zip, cell, attempt, xpc, archive, xev>>

NextApp ==
  /\ \/ \E files \in {<<>>} \cup {<<f>> : f \in Files} : HandleFiles(files, 1..MaxReloads)
     \/ \E pr \in ProjectionTypes : ProjectionChange(pr, 1..MaxReloads)
     \/ ReactiveReload(1..MaxReloads)
     \/ AppendAngle
     \/ \E t \in 1..MaxReloads : ReloadCloseSettle(t)
     \/ \E t \in 1..MaxReloads, ok \in BOOLEAN : ReloadCreateSettle(t, ok)
  /\ UNCHANGED <<vars, xrest2, svars, nvars, pvars, fvars, bvars, cvars>>

SpecApp == Init /\ [][NextApp]_allvars

\* the names of FileNames whose lower-case form ends in .mp4 or .insv
SupportedNames ==
  { <<"A", ".", "M", "P", "4">>,
    <<"a", ".", "I", "n", "s", "v">> }

\* C26: handleFiles accepts a file only when its type is video/mp4 or its
\* lower-cased name ends in .mp4 or .insv, and then takes it as the current file;
\* for every other file it sets the unsupported-file error and changes nothing
\* else: the file, the video URL, the angles, the projection and the frame provider
\* are unchanged and no provider load or close is started.
C26_SourceGate ==
  [][\A f \in Files :
       (aev'.op = "handleFiles" /\ HandleFiles(<<f>>, 1..MaxReloads)) =>
         IF f.type = "video/mp4" \/ f.name \in SupportedNames
         THEN /\ file' = f
              /\ videoUrl' = f
              /\ error' = "null"
         ELSE /\ error' = "Only MP4 and Insta360 INSV files are supported right now."
              /\ UNCHANGED <<file, lastFile, videoUrl, projection, angles, frameProvider,
                             providerLoading, prov, provFile, rl, dirty>>]_allvars

\* a file that is not supported was offered while a provider was live, a file
\* was loaded and angles were in the list
C26_Witness ==
  /\ aev.op = "handleFiles"
  /\ ~aev.ok
  /\ error = "Only MP4 and Insta360 INSV files are supported right now."
  /\ file # NoFile
  /\ frameProvider # 0
  /\ prov[frameProvider] = "live"
  /\ angles # <<>>

\* the providers whose backend is live
LiveProviders == {i \in 1..MaxProv : prov[i] = "live"}

\* C28: in every reachable state of the page at most one frame provider with a
\* live backend exists, and a provider that is no longer frameProvider (it was
\* replaced) has been closed.
C28_OneLiveProvider ==
  /\ Cardinality(LiveProviders) <= 1
  /\ \A i \in LiveProviders : frameProvider = i

\* C29: when createProvider rejects during reloadProvider, the error is shown,
\* that reloadProvider call ends without another attempt, frameProvider is null
\* and providerLoading is false (so that extractFrames reports 'No
\* video/provider loaded.').
C29_LoadFailure ==
  (aev.op = "created" /\ ~aev.ok) =>
    /\ error = "Provider load error"
    /\ rl[aev.t].pc = "idle"
    /\ frameProvider = 0
    /\ providerLoading = FALSE

\* the files selected one after the other: an MP4 and an INSV recording
ReloadFiles ==
  { [type |-> "video/mp4", name |-> <<"m", "p", "4">>],
    [type |-> "video/quicktime", name |-> <<"a", ".", "I", "n", "s", "v">>] }

\* the page with a file selected while the loads of another are under way
NextReload ==
  /\ \/ \E f \in ReloadFiles : HandleFiles(<<f>>, 1..MaxOverlap)
     \/ \E pr \in ProjectionTypes : ProjectionChange(pr, 1..MaxOverlap)
     \/ ReactiveReload(1..MaxOverlap)
     \/ \E t \in 1..MaxOverlap : ReloadCloseSettle(t)
     \/ \E t \in 1..MaxOverlap, ok \in BOOLEAN : ReloadCreateSettle(t, ok)
  /\ UNCHANGED <<vars, xrest2, angles, svars, nvars, pvars, fvars, bvars, cvars>>

SpecReload == Init /\ [][NextReload]_allvars

\* all provider loads have settled: no reloadProvider call is under way and the
\* reactive statement has run
LoadsSettled == ~dirty /\ \A t \in 1..MaxOverlap : rl[t].pc = "idle"

ExportHolder == [by |-> "export", k |-> NoPreview]
PreviewHolder(k) == [by |-> "preview", k |-> k]

\* the lock after a step of extractFrames that found it held by h: a frameAt call
\* the step issued takes it when it is free and is rejected when it is not
ExportTakes(h) ==
  IF ~xev'.issued THEN lockHolder' = h /\ xrej' = ""
  ELSE IF h = NoHolder THEN lockHolder' = ExportHolder /\ xrej' = ""
  ELSE lockHolder' = h /\ xrej' = h.by

\* the lock after a step of the preview path that found it held by h and had the
\* calls old in flight: a frameAt call the step issued takes it when it is free
PreviewTakes(h, old) ==
  /\ xrej' = xrej
  /\ IF pcalls' \ old # {} /\ h = NoHolder
     THEN lockHolder' = PreviewHolder(CHOOSE k \in pcalls' \ old : TRUE)
     ELSE lockHolder' = h

\* a step of the preview path that settles no call
PreviewStep(A) ==
  /\ A
  /\ PreviewTakes(lockHolder, pcalls)
  /\ UNCHANGED <<vars, xrest, svars, nvars, avars, fvars, bvars>>

\* the frameAt call k of a preview settles: the finally of frameAt releases the
\* lock when k is the call that took it
PreviewSettles(k, ok) ==
  /\ PreviewSettle(k, ok, TRUE)
  /\ PreviewTakes(IF lockHolder = PreviewHolder(k) THEN NoHolder ELSE lockHolder,
                  pcalls \ {k})
  /\ UNCHANGED <<vars, xrest, svars, nvars, avars, fvars, bvars>>

\* a step of extractFrames that settles no frameAt call
ExportRuns(A) ==
  /\ A
  /\ ExportTakes(lockHolder)
  /\ UNCHANGED <<vars, svars, nvars, pvars, avars, fvars, bvars>>

\* the frameAt call of the export settles: with the busy error exactly when it
\* found the lock held, and releasing the lock when it had taken it
ExportFrameAtSettles ==
  /\ FrameAtSettle
  /\ (xev'.out = "busy") <=> (xrej # "")
  /\ ExportTakes(IF lockHolder = ExportHolder THEN NoHolder ELSE lockHolder)
  /\ UNCHANGED <<vars, svars, nvars, pvars, avars, fvars, bvars>>

\* the page with a provider loaded: the cards added, their previews asked for by
\* the reactive block, the player and the Update preview button, and the export
\* of the cards over a video of one sample
NextCollide ==
  \/ PreviewStep(ClockTick)
  \/ PreviewStep(AddCameraAngle(TRUE))
  \/ \E c \in 1..MaxCams : PreviewStep(UpdatePreviewClick(c, TRUE))
  \/ PreviewStep(ReactiveRun(TRUE))
  \/ PreviewStep(HandleTimeUpdate(TRUE))
  \/ \E k \in pcalls, ok \in BOOLEAN : PreviewSettles(k, ok)
  \/ ExportRuns(ExtractFramesCall(TRUE, 1, 1, Len(cams)))
  \/ ExportFrameAtSettles
  \/ ExportRuns(ImgLoadSettle)
  \/ ExportRuns(ImgErrorEvent)
  \/ ExportRuns(ToBlobSettle)
  \/ ExportRuns(DelaySettle)
  \/ ExportRuns(ZipSettle)
  \/ ExportRuns(CancelClick)

SpecCollide == Init /\ [][NextCollide]_allvars

\* C37: export and preview never collide on the provider: no preview frameAt is
\* initiated while exporting is true, and no frameAt call issued by the export is
\* rejected with the busy error because of a preview render, including a preview
\* started just before the export began.
C37_NoCollision ==
  [][/\ pcalls' \ pcalls # {} => ~exporting
     /\ xev'.issued => xrej' # "preview"]_allvars

(***************************************************************************)
(* The provider factory with the WebCodecs experiment (providers.ts):      *)
(* createProvider, WebCodecsHevcProvider, HevcMediaElementProvider.        *)
(***************************************************************************)
\* values of the environment flag
EnvValues == {"undefined", "string 1", "number 1", "string 0", "boolean true"}

\* what isConfigSupported does for one configuration
ProbeOutcomes == {"supported", "unsupported", "throws"}

\* what the hidden video element does: the metadata loads, the element reports an
\* error, or the metadata loads and no 2D context is to be had
MediaOutcomes == {"loadedmetadata", "error", "no context"}

\* the configurations probed: hvc1, hev1
NumConfigs == 2

\* env.VITE_EXPERIMENTAL_WEBCODECS == 1 || env.VITE_EXPERIMENTAL_WEBCODECS === '1'
UseWc(v) ==
  \/ v \in {"string 1", "number 1", "boolean true"}
  \/ v = "string 1"

\* createProvider after await wc.load(name, bytes): return wc, or the catch and
\* the fallback
AfterWcLoad(ok) == IF ok THEN "done" ELSE "meLoad"

\* WebCodecsHevcProvider.frameAt
WcFrameAt(sup) == IF ~sup THEN "not initialized" ELSE "not implemented yet"

InitFactory ==
  /\ CoreInit
  /\ NameInit
  /\ PreviewInit
  /\ AppInit
  /\ LockInit
  /\ SampleInit
  /\ envFlag \in EnvValues
  /\ hasVideoDecoder \in BOOLEAN
  /\ probe \in [1..NumConfigs -> ProbeOutcomes]
  /\ meOutcome \in MediaOutcomes
  /\ FactoryIdle

\* wc.load ended: supported is set, load returned or threw
WcLoadEnd(sup) ==
  /\ supported' = sup
  /\ fpc' = AfterWcLoad(sup)
  /\ returned' = IF AfterWcLoad(sup) = "done" THEN "wc" ELSE "none"

\* createProvider(bytes, name, projection) up to its first await
CreateProviderFlagged ==
  /\ fpc = "idle"
  /\ IF UseWc(envFlag)
     THEN IF hasVideoDecoder
          THEN /\ fpc' = "probe"
               /\ probeAt' = 1
               /\ UNCHANGED <<supported, returned>>
          ELSE /\ WcLoadEnd(FALSE)
               /\ probeAt' = probeAt
     ELSE /\ fpc' = "meLoad"
          /\ UNCHANGED <<probeAt, supported, returned>>
  /\ UNCHANGED <<envFlag, hasVideoDecoder, probe, meOutcome, served>>

\* await vd.isConfigSupported({codec}) settles in probeHevcSupport
ProbeSettle ==
  /\ fpc = "probe"
  /\ IF probe[probeAt] = "supported"
     THEN /\ WcLoadEnd(TRUE)
          /\ probeAt' = probeAt
     ELSE IF probeAt < NumConfigs
     THEN /\ probeAt' = probeAt + 1
          /\ UNCHANGED <<fpc, supported, returned>>
     ELSE /\ WcLoadEnd(FALSE)
          /\ probeAt' = probeAt
  /\ UNCHANGED <<envFlag, hasVideoDecoder, probe, meOutcome, served>>

\* await me.load(name, bytes) settles: createProvider returns me or rejects
MeLoadSettle ==
  /\ fpc = "meLoad"
  /\ fpc' = "done"
  /\ returned' = IF meOutcome = "loadedmetadata" THEN "me" ELSE "rejected"
  /\ UNCHANGED <<envFlag, hasVideoDecoder, probe, meOutcome, probeAt, supported, served>>

\* frameAt of the provider createProvider returned; the media element's seek can fail
ReturnedFrameAt(seekOk) ==
  /\ fpc = "done"
  /\ returned \in {"wc", "me"}
  /\ served = "none"
  /\ served' = IF returned = "wc" THEN WcFrameAt(supported)
               ELSE IF seekOk THEN "frame" ELSE "Seek failed"
  /\ UNCHANGED <<envFlag, hasVideoDecoder, probe, meOutcome, fpc, probeAt, supported,
                 returned>>

NextFactory ==
  /\ \/ CreateProviderFlagged
     \/ ProbeSettle
     \/ MeLoadSettle
     \/ \E seekOk \in BOOLEAN : ReturnedFrameAt(seekOk)
  /\ UNCHANGED <<vars, xvars, svars, nvars, pvars, avars, bvars, cvars>>

SpecFactory == InitFactory /\ [][NextFactory]_allvars

\* C27: with the WebCodecs flag enabled createProvider never returns the
\* WebCodecs provider, and the frameAt of the provider it returns is never the
\* unimplemented one.
C27_NeverWebCodecs ==
  UseWc(envFlag) =>
    /\ returned # "wc"
    /\ served \notin {"not initialized", "not implemented yet"}

(***************************************************************************)
(* bilinearSample.  A number is a binary floating-point number as in       *)
(* JavaScript, with the precision cut from 53 to FloatBits bits: it is     *)
(* held as a whole count of quanta of 2^-QuantumBits (the spacing of the   *)
(* subnormal numbers), and every operation rounds its exact result to the  *)
(* nearest number, ties to even.                                           *)
(***************************************************************************)
\* bits of precision of a number
FloatBits == 8

\* the quantum is 2^-QuantumBits
QuantumBits == 10

RECURSIVE Pow2(_)
Pow2(n) == IF n = 0 THEN 1 ELSE 2 * Pow2(n - 1)

\* 1.0 in quanta
One == Pow2(QuantumBits)

Abs(n) == IF n < 0 THEN -n ELSE n

\* n / d rounded to the nearest whole number, ties to even (n >= 0, d > 0)
RoundHalfEven(n, d) ==
  LET q == n \div d
      r == n % d
  IN IF 2 * r < d THEN q
     ELSE IF 2 * r > d THEN q + 1
     ELSE IF q % 2 = 0 THEN q ELSE q + 1

\* a count of quanta below this limit is a number
MantissaLimit == Pow2(FloatBits)

\* the spacing of the numbers around a / d quanta
RECURSIVE Spacing(_, _, _)
Spacing(a, d, sp) ==
  IF a < MantissaLimit * sp * d THEN sp ELSE Spacing(a, d, 2 * sp)

\* the exact result n / d (in quanta), rounded to a number
Fl(n, d) ==
  LET a == Abs(n)
      sp == Spacing(a, d, 1)
      m == RoundHalfEven(a, sp * d) * sp
  IN IF n < 0 THEN -m ELSE m

\* the numbers: the counts of quanta that rounding leaves alone
IsNumber(m) == Fl(m, 1) = m

\* a + b, a - b, a * b of two numbers; a whole number n as a number
FlAdd(a, b) == Fl(a + b, 1)
FlSub(a, b) == Fl(a - b, 1)
FlMul(a, b) == Fl(a * b, One)
FromInt(n) == n * One

\* Math.floor(a), a whole number
MathFloor(a) == a \div One

\* Math.round(a): the whole number nearest to a, ties upwards
MathRound(a) == (2 * a + One) \div (2 * One)

\* Math.max and Math.min
MathMax(a, b) == IF a > b THEN a ELSE b
MathMin(a, b) == IF a < b THEN a ELSE b

\* u = u - Math.floor(u)
WrapU(u) == FlSub(u, FromInt(MathFloor(u)))

\* no clamp of v
ClampV_None(v) == v

\* v = Math.max(0, Math.min(1, v))
ClampV(v) == MathMax(0, MathMin(One, v))

\* what a Uint8ClampedArray keeps of a whole number
Uint8Clamped(n) == MathMax(0, MathMin(255, n))

\* the loop body of bilinearSample: the value written for one channel
Channel(p00, p10, p01, p11, dx, dy) ==
  LET p0 == FlAdd(p00, FlMul(FlSub(p10, p00), dx))
      p1 == FlAdd(p01, FlMul(FlSub(p11, p01), dx))
  IN Uint8Clamped(MathRound(FlAdd(p0, FlMul(FlSub(p1, p0), dy))))

\* x1 = Math.min(x0 + 1, w - 1) and y1 = Math.min(y0 + 1, h - 1) without the Math.min
NextTap_NoMin(t0, n) == t0 + 1

\* x1 = Math.min(x0 + 1, w - 1), y1 = Math.min(y0 + 1, h - 1)
NextTap(t0, n) == MathMin(t0 + 1, n - 1)

\* x0, x1, y0, y1 of bilinearSample, from x and y
Taps(image, x, y) ==
  LET x0 == MathFloor(x)
      y0 == MathFloor(y)
  IN <<x0, NextTap(x0, image.width), y0, NextTap(y0, image.height)>>

\* d[i]: the byte at index i, or undefined (-1) outside the array
ReadByte(image, i) ==
  IF i + 1 \in 1..Len(image.data) THEN image.data[i + 1] ELSE -1

\* the value written for one channel: an undefined tap makes the sum NaN, which
\* the Uint8ClampedArray keeps as 0
ChannelOf(b00, b10, b01, b11, dx, dy) ==
  IF b00 < 0 \/ b10 < 0 \/ b01 < 0 \/ b11 < 0
  THEN 0
  ELSE Channel(FromInt(b00), FromInt(b10), FromInt(b01), FromInt(b11), dx, dy)

\* bilinearSample from x and y on: the four values written
SampleAt(image, x, y) ==
  LET w == image.width
      t == Taps(image, x, y)
      dx == FlSub(x, FromInt(t[1]))
      dy == FlSub(y, FromInt(t[3]))
      i00 == (t[3] * w + t[1]) * 4
      i10 == (t[3] * w + t[2]) * 4
      i01 == (t[4] * w + t[1]) * 4
      i11 == (t[4] * w + t[2]) * 4
  IN [c \in 1..4 |->
        ChannelOf(ReadByte(image, i00 + c - 1), ReadByte(image, i10 + c - 1),
                  ReadByte(image, i01 + c - 1), ReadByte(image, i11 + c - 1), dx, dy)]

\* x = u * (w - 1) and y = v * (h - 1) after the wrap and the clamp
SampleX(image, u) == FlMul(WrapU(u), FromInt(image.width - 1))
SampleY(image, v) == FlMul(ClampV(v), FromInt(image.height - 1))

\* bilinearSample(image, u, v, out, o): the four values written to out[o..o+3]
bilinearSample(image, u, v) ==
  SampleAt(image, SampleX(image, u), SampleY(image, v))

\* the largest |u| and |k|, and the raster sizes
MaxAbsU == 1
MaxK == 1
MaxW == 3
MaxH == 2

\* the rasters: the byte at index i is (a * i + b) mod 256
RasterFill == {<<37, 0>>}

Rasters ==
  { [width |-> w, height |-> h,
     data |-> [i \in 1..(w * h * 4) |-> (f[1] * (i - 1) + f[2]) % 256]] :
      w \in 1..MaxW, h \in 1..MaxH, f \in RasterFill }

\* the u of the calls: every number up to MaxAbsU in size
SampleUs == {m \in (-MaxAbsU * One)..(MaxAbsU * One) : IsNumber(m)}

\* the v of the calls: -0.5, 0.25, 1.5
SampleVs == {-(One \div 2), One \div 4, One + One \div 2}

InitSample ==
  /\ CoreInit
  /\ NameInit
  /\ PreviewInit
  /\ AppInit
  /\ LockInit
  /\ FactoryInit
  /\ img \in Rasters
  /\ su \in SampleUs
  /\ sv \in SampleVs
  /\ sk \in (-MaxK)..MaxK
  /\ outA = <<>>
  /\ outB = <<>>
  /\ tapsA = <<>>
  /\ pole = -1

\* bilinearSample(img, u, v, out, o), then bilinearSample(img, u + k, v, out, o)
SampleTwice ==
  /\ outA = <<>>
  /\ outA' = bilinearSample(img, su, sv)
  /\ outB' = bilinearSample(img, FlAdd(su, FromInt(sk)), sv)
  /\ tapsA' = Taps(img, SampleX(img, su), SampleY(img, sv))
  /\ UNCHANGED <<img, su, sv, sk, pole>>

NextSample ==
  /\ SampleTwice
  /\ UNCHANGED <<vars, xvars, svars, nvars, pvars, avars, fvars, cvars>>

SpecSample == InitSample /\ [][NextSample]_allvars

\* C30: for every raster, every v and every whole number k, sampling at (u + k, v)
\* writes the same four channel values as sampling at (u, v).
C30_Wraparound ==
  outA # <<>> => outA = outB

\* the u of the calls at the poles: the numbers up to 2 * MaxAbsU in size that are
\* whole multiples of 1/32 or within 8 quanta of 0
PoleUs ==
  { m \in (-2 * MaxAbsU * One)..(2 * MaxAbsU * One) :
      IsNumber(m) /\ (Abs(m) < 8 \/ m % (One \div 32) = 0) }

\* the v of the calls at the poles: -2, -0.5, the last number below 0, 0, the
\* first number above 0, 0.5, the last number below 1, 1, the first number above 1,
\* 1.5, 3
PoleVs ==
  { -2 * One, -(One \div 2), -1, 0, 1, One \div 2, One - One \div Pow2(FloatBits), One,
    One + One \div Pow2(FloatBits - 1), One + One \div 2, 3 * One }

InitPole ==
  /\ CoreInit
  /\ NameInit
  /\ PreviewInit
  /\ AppInit
  /\ LockInit
  /\ FactoryInit
  /\ img \in Rasters
  /\ su \in PoleUs
  /\ sv \in PoleVs
  /\ sk = 0
  /\ outA = <<>>
  /\ outB = <<>>
  /\ tapsA = <<>>
  /\ pole = -1

\* bilinearSample(img, u, v, out, o), then bilinearSample(img, u, p, out, o) with p
\* a pole: 0 or 1
SamplePole(p) ==
  /\ outA = <<>>
  /\ outA' = bilinearSample(img, su, sv)
  /\ outB' = bilinearSample(img, su, p)
  /\ tapsA' = Taps(img, SampleX(img, su), SampleY(img, sv))
  /\ pole' = p
  /\ UNCHANGED <<img, su, sv, sk>>

NextPole ==
  /\ \E p \in {0, One} : SamplePole(p)
  /\ UNCHANGED <<vars, xvars, svars, nvars, pvars, avars, fvars, cvars>>

SpecPole == InitPole /\ [][NextPole]_allvars

\* C31: for every raster and every u, sampling at any v < 0 writes the same values
\* as sampling at v = 0, and sampling at any v > 1 the same as sampling at v = 1.
C31_PoleClamp ==
  outA # <<>> =>
    /\ (sv < 0 /\ pole = 0) => outA = outB
    /\ (sv > One /\ pole = One) => outA = outB

\* a raster of two rows was sampled below v = 0 and at v = 0, and above v = 1 the
\* rows differ from the row at v = 0
C31_Witness ==
  /\ outA # <<>>
  /\ sv < 0
  /\ pole = 0
  /\ img.height = 2
  /\ outA # bilinearSample(img, su, One)

\* C39: bilinearSample never reads outside the raster: for every u and v and
\* every raster the taps satisfy 0 <= x0 <= x1 <= w - 1 and 0 <= y0 <= y1 <= h - 1,
\* and exactly 4 channel values are written.
C39_TapsInRaster ==
  outA # <<>> =>
    /\ 0 <= tapsA[1] /\ tapsA[1] <= tapsA[2] /\ tapsA[2] <= img.width - 1
    /\ 0 <= tapsA[3] /\ tapsA[3] <= tapsA[4] /\ tapsA[4] <= img.height - 1
    /\ Len(outA) = 4
    /\ \A c \in 1..4 : outA[c] \in 0..255

\* a raster three wide and two high was sampled at its last column (u wrapped to
\* 1) above the pole v = 1
C39_Witness ==
  /\ outA # <<>>
  /\ img.width = 3
  /\ img.height = 2
  /\ su < 0
  /\ sv > One
  /\ tapsA = <<2, 2, 1, 1>>

(***************************************************************************)
(* More properties of InsvFrameProvider.frameAt.                           *)
(***************************************************************************)
\* C32: on a loaded provider a frameAt call whose key equals the key of the last
\* frame rendered returns that frame in its synchronous prefix, before the busy
\* check: no exec is issued and the busy flag is left as it was, also while
\* another frameAt call is in flight.
C32_CacheBeforeBusy ==
  [][(/\ ev'.op = "frameAt" /\ ev'.at = "call"
      /\ IsLoaded
      /\ lastRender.frame # NoFrame
      /\ CacheKey(ev'.req) = CacheKey(lastRender.req))
     => /\ ev'.kind = "ok" /\ ev'.frame = lastRender.frame
        /\ execCount' = execCount
        /\ isProcessing' = isProcessing
        /\ fa' = fa
        /\ inst' = inst]_allvars

\* C32 witness: the cached frame was returned while another call waits for its
\* exec and holds the lock
C32_Witness ==
  /\ ev.op = "frameAt" /\ ev.at = "call" /\ ev.kind = "ok"
  /\ ev.frame = lastRender.frame
  /\ isProcessing
  /\ \E d \in Callers : d # ev.c /\ fa[d].pc = "exec"

\* load was never called: no backend instance was ever created
NeverLoaded == \A i \in Insts : inst[i].st = "none"

\* load is in flight and has not mounted or written the source yet
LoadNotMounted == ld.pc # "idle"

\* C33: a frameAt call on a provider that was never loaded, whose load has not yet
\* mounted the source, or that has been closed fails with 'FFmpeg not loaded': it
\* returns no cached frame, issues no exec and leaves the busy flag and the cache
\* unchanged.
C33_NotLoadedRejects ==
  [][(/\ ev'.op = "frameAt" /\ ev'.at = "call"
      /\ (NeverLoaded \/ LoadNotMounted \/ sealed))
     => /\ ev'.kind = "err" /\ ev'.err = "notloaded"
        /\ execCount' = execCount
        /\ isProcessing' = isProcessing
        /\ fa' = fa
        /\ lastProcessedKey' = lastProcessedKey
        /\ lastProcessedResult' = lastProcessedResult]_allvars

\* C34: a frameAt call rejected with the busy error changes nothing: the busy
\* flag was true and stays true, the cache is unchanged, no exec is issued, and
\* the calls in flight, the backend instances and the provider's fields are as
\* they were.
C34_BusyRejectionChangesNothing ==
  [][(ev'.op = "frameAt" /\ ev'.at = "call" /\ ev'.kind = "err" /\ ev'.err = "busy")
     => /\ isProcessing /\ isProcessing'
        /\ lastProcessedKey' = lastProcessedKey
        /\ lastProcessedResult' = lastProcessedResult
        /\ execCount' = execCount
        /\ fa' = fa
        /\ inst' = inst
        /\ ffmpeg' = ffmpeg /\ name' = name]_allvars

\* C34 witness: a call was rejected as busy while the call that holds the lock is
\* reading its still, and the cache holds an earlier frame
C34_Witness ==
  /\ ev.op = "frameAt" /\ ev.at = "call" /\ ev.kind = "err" /\ ev.err = "busy"
  /\ isProcessing
  /\ lastProcessedKey # NoKey
  /\ \E d \in Callers : d # ev.c /\ fa[d].pc = "readFile"

\* C35: a frameAt call whose exec threw a non-fatal error does not reinitialize
\* the backend and never completes successfully: it rejects, and the cache is left
\* as it was.
C35_NonFatalExecRejects ==
  [][\A c \in Callers :
       fa[c].caught = "exec"
       => /\ fa'[c].pc \notin ReinitPcs
          /\ (fa'[c].pc = "idle"
              => /\ ev'.op = "frameAt" /\ ev'.at = "return" /\ ev'.c = c
                 /\ ev'.kind = "err"
                 /\ lastProcessedKey' = lastProcessedKey
                 /\ lastProcessedResult' = lastProcessedResult)]_allvars

(***************************************************************************)
(* Termination of the export run                                           *)
(***************************************************************************)
\* a step of the page's export code, the rest of the state left alone
ExportStep(A) == A /\ UNCHANGED <<vars, svars, morevars>>

\* every await of extractFrames that can settle does settle: the frameAt call
\* returns or throws, the image that can load fires its load event, toBlob calls
\* back, the timer of the retry fires, and generateAsync resolves or rejects
ExportFairness ==
  /\ WF_allvars(ExportStep(FrameAtSettle))
  /\ WF_allvars(ExportStep(ImgLoadSettle))
  /\ WF_allvars(ExportStep(ToBlobSettle))
  /\ WF_allvars(ExportStep(DelaySettle))
  /\ WF_allvars(ExportStep(ZipSettle))

SpecExportLive == SpecExport /\ ExportFairness

\* C38: every export run that starts (exporting = true) eventually ends with
\* exporting = false, whatever the outcome of each cell and whether or not it is
\* cancelled, given that each frameAt call settles.
C38_ExportEnds == exporting ~> ~exporting

=============================================================================
